---- MODULE Spec2Model ----
(***************************************************************************)
(* CherryPi RF controller: the pulse-train decoding pipeline of            *)
(* src/src/RFController/custom_rf_decoder.py (CustomRFDecoder) and the     *)
(* part of src/src/RFController/sniffer_service.py that drives it.         *)
(*                                                                         *)
(* Durations are integer microseconds (the code truncates with int()).     *)
(* Python floats are modelled by exact rationals: an average is the pair   *)
(* (sum, count), a ratio is compared by cross-multiplication, and          *)
(* min_confidence is carried in tenths.                                    *)
(***************************************************************************)
EXTENDS Integers, Sequences, FiniteSets, TLC

\* ------------------------------------------------------------------------
\* Program constants
\* ------------------------------------------------------------------------

\* self.sync_gap_threshold = 4000
sync_gap_threshold == 4000

\* tolerance=0.4, as the rational tolerance_num / tolerance_den
tolerance_num == 4

tolerance_den == 10

\* the least number of pulses of a segment, and of transitions of a capture
min_pulses == 40

\* the least number of samples each band must hold
min_band_samples == 10

\* the short band is (150, 450), the long band (450, 1200), both open
short_band_lo == 150

band_split == 450

long_band_hi == 1200

\* a frame is accepted with 20..28 bits, and its first 24 are packed
min_bits == 20

max_bits == 28

frame_bits == 24

\* codes <= 1000 are rejected as noise
noise_floor == 1000

\* competing_codes lists sorted_codes[:5]
top_codes == 5

\* min_confidence=0.5 and min_segments=3 are the defaults (tenths for the former)
default_min_confidence == 5

default_min_segments == 3

\* ------------------------------------------------------------------------
\* Helpers on sequences
\* ------------------------------------------------------------------------

RECURSIVE SumRange(_, _, _)
\* xs[lo] + ... + xs[hi], by halves
SumRange(xs, lo, hi) ==
    IF lo > hi THEN 0
    ELSE IF lo = hi THEN xs[lo]
    ELSE LET mid == (lo + hi) \div 2
         IN  SumRange(xs, lo, mid) + SumRange(xs, mid + 1, hi)

\* sum(xs)
SumSeq(xs) ==
    SumRange(xs, 1, Len(xs))

\* abs(x)
Abs(x) ==
    IF x < 0 THEN -x ELSE x

\* xs[:n]
Take(xs, n) ==
    IF Len(xs) <= n THEN xs ELSE SubSeq(xs, 1, n)

\* round(num / den) to the nearest integer, ties to even, as Python's round()
\* does on an exactly representable tie; num >= 0, den > 0
RoundHalfEven(num, den) ==
    LET q == num \div den
        r == num % den
    IN  IF 2 * r < den THEN q
        ELSE IF 2 * r > den THEN q + 1
        ELSE IF q % 2 = 0 THEN q ELSE q + 1

\* ------------------------------------------------------------------------
\* CustomRFDecoder.find_code_segments
\* ------------------------------------------------------------------------

\* the loop's body with a pulse of exactly the threshold taken for a gap
segments_step_gap_inclusive(timings, st) ==
    LET pulse_us == timings[st.i][1]
    IN  IF pulse_us >= sync_gap_threshold
        THEN [i |-> st.i + 1,
              segments |-> IF Len(st.current_segment) >= min_pulses
                           THEN Append(st.segments, st.current_segment)
                           ELSE st.segments,
              current_segment |-> <<>>]
        ELSE [i |-> st.i + 1,
              segments |-> st.segments,
              current_segment |-> Append(st.current_segment, pulse_us)]

\* one pass of the for loop's body, at index st.i (1-based): st holds the
\* loop's two lists
segments_step(timings, st) ==
    LET pulse_us == timings[st.i][1]
    IN  IF pulse_us > sync_gap_threshold
        THEN [i |-> st.i + 1,
              segments |-> IF Len(st.current_segment) >= min_pulses
                           THEN Append(st.segments, st.current_segment)
                           ELSE st.segments,
              current_segment |-> <<>>]
        ELSE [i |-> st.i + 1,
              segments |-> st.segments,
              current_segment |-> Append(st.current_segment, pulse_us)]

RECURSIVE segments_loop(_, _, _)
\* the for loop over timings, run from the loop state st until its index
\* has passed hi (first up to the middle, then on: the evaluation stays
\* shallow and the passes happen in the loop's order)
segments_loop(timings, st, hi) ==
    IF st.i > hi THEN st
    ELSE IF st.i = hi THEN segments_step(timings, st)
    ELSE segments_loop(timings, segments_loop(timings, st, (st.i + hi) \div 2), hi)

\* find_code_segments without its last step: the segment still open when
\* the buffer ends is forgotten
find_code_segments_without_last(timings) ==
    segments_loop(timings,
        [i |-> 1, segments |-> <<>>, current_segment |-> <<>>],
        Len(timings)).segments

find_code_segments(timings) ==
    LET st == segments_loop(timings,
                  [i |-> 1, segments |-> <<>>, current_segment |-> <<>>],
                  Len(timings))
    IN  \* the last segment
        IF Len(st.current_segment) >= min_pulses
        THEN Append(st.segments, st.current_segment)
        ELSE st.segments

\* ------------------------------------------------------------------------
\* CustomRFDecoder.decode_segment
\* ------------------------------------------------------------------------

\* the short band with its lower edge inside
in_short_band_inclusive(d) ==
    short_band_lo <= d /\ d < band_split

\* 150 < d < 450
in_short_band(d) ==
    short_band_lo < d /\ d < band_split

\* 450 < d < 1200
in_long_band(d) ==
    band_split < d /\ d < long_band_hi

\* the comparison at a tolerance of 0.35
matches_at_035(t, sum, n) ==
    Abs(t * n - sum) * 100 < sum * 35

\* abs(t - avg) < avg * tol, with avg = sum / n and tol = 4/10
matches(t, sum, n) ==
    Abs(t * n - sum) * tolerance_den < sum * tolerance_num

\* one pass of the while loop's body at index st.i (1-based): avg holds the
\* two band sums and counts
bits_step(durations, st, avg) ==
    LET t1 == durations[st.i]
        t2 == durations[st.i + 1]
        is_t1_short == matches(t1, avg.short_sum, avg.short_n)
        is_t1_long == matches(t1, avg.long_sum, avg.long_n)
        is_t2_short == matches(t2, avg.short_sum, avg.short_n)
        is_t2_long == matches(t2, avg.long_sum, avg.long_n)
    IN  IF is_t1_short /\ is_t2_long
        THEN [i |-> st.i + 2, bits |-> Append(st.bits, 0)]
        ELSE IF is_t1_long /\ is_t2_short
        THEN [i |-> st.i + 2, bits |-> Append(st.bits, 1)]
        ELSE [i |-> st.i + 1, bits |-> st.bits]

RECURSIVE bits_loop(_, _, _, _)
\* the while loop, run from the loop state st until its index has passed hi
\* (first up to the middle, then on, as in segments_loop)
bits_loop(durations, st, avg, hi) ==
    IF st.i > hi THEN st
    ELSE IF st.i = hi THEN bits_step(durations, st, avg)
    ELSE bits_loop(durations, bits_loop(durations, st, avg, (st.i + hi) \div 2), avg, hi)

RECURSIVE pack_bits_lsb_first(_, _)
\* the bits packed least significant first
pack_bits_lsb_first(bits, code) ==
    IF bits = <<>> THEN code
    ELSE Head(bits) + 2 * pack_bits_lsb_first(Tail(bits), code)

RECURSIVE pack_bits(_, _)
\* for b in bits: code = (code << 1) | b
pack_bits(bits, code) ==
    IF bits = <<>> THEN code
    ELSE pack_bits(Tail(bits), 2 * code + Head(bits))

\* the value decode_segment returns when it returns None
None ==
    [code |-> 0, pulselength |-> 0, protocol |-> 0, bits |-> 0,
     short_pulse |-> 0, long_pulse |-> 0, none |-> TRUE]

decode_segment(durations) ==
    IF Len(durations) < min_pulses THEN None
    ELSE LET short_pulses == SelectSeq(durations, in_short_band)
             long_pulses == SelectSeq(durations, in_long_band)
         IN  IF Len(short_pulses) < min_band_samples
                \/ Len(long_pulses) < min_band_samples
             THEN None
             ELSE LET ssum == SumSeq(short_pulses)
                      sn == Len(short_pulses)
                      lsum == SumSeq(long_pulses)
                      ln == Len(long_pulses)
                      avg == [short_sum |-> ssum, short_n |-> sn,
                              long_sum |-> lsum, long_n |-> ln]
                      \* while i < len(durations) - 1, 0-based: the last index
                      \* the body runs at is Len(durations) - 1, 1-based
                      bits == bits_loop(durations, [i |-> 1, bits |-> <<>>], avg,
                                        Len(durations) - 1).bits
                  IN  IF min_bits <= Len(bits) /\ Len(bits) <= max_bits
                      THEN LET code == pack_bits(Take(bits, frame_bits), 0)
                           IN  IF code > noise_floor
                               THEN [code |-> code,
                                     pulselength |-> ssum \div sn,
                                     protocol |-> 1,
                                     bits |-> Len(bits),
                                     short_pulse |-> ssum \div sn,
                                     long_pulse |-> lsum \div ln,
                                     none |-> FALSE]
                               ELSE None
                      ELSE None

\* ------------------------------------------------------------------------
\* CustomRFDecoder.capture_single_window: the analysis of a captured buffer
\* ------------------------------------------------------------------------

\* what the decoder in use has analysed so far, kept to compare its calls:
\* its first call, whether a call on another buffer followed, and the
\* outcome of its last call
VARIABLE decoder_history

\* a decoder that has analysed nothing
NoHistory ==
    [first |-> [kind |-> "none"], others |-> FALSE, last |-> [kind |-> "none"]]

RECURSIVE index_of_code(_, _, _)
\* where code sits in the insertion-ordered dict codes_found, 0 if absent
index_of_code(codes_found, code, i) ==
    IF i > Len(codes_found) THEN 0
    ELSE IF codes_found[i].code = code THEN i
    ELSE index_of_code(codes_found, code, i + 1)

RECURSIVE tally_loop(_, _, _, _)
\* for seg in segments: decode it, count the code or count a failure.
\* codes_found is the dict in insertion order: <<[code, result, count], ...>>
tally_loop(segments, i, codes_found, decode_failures) ==
    IF i > Len(segments)
    THEN [codes_found |-> codes_found, decode_failures |-> decode_failures]
    ELSE LET result == decode_segment(segments[i])
         IN  IF ~result.none /\ result.code > noise_floor
             THEN LET k == index_of_code(codes_found, result.code, 1)
                  IN  IF k = 0
                      THEN tally_loop(segments, i + 1,
                               Append(codes_found,
                                   [code |-> result.code, result |-> result, count |-> 1]),
                               decode_failures)
                      ELSE tally_loop(segments, i + 1,
                               [codes_found EXCEPT ![k].count = @ + 1],
                               decode_failures)
             ELSE tally_loop(segments, i + 1, codes_found, decode_failures + 1)

RECURSIVE insert_by_count_before_equals(_, _, _)
\* e placed before the entries of its own count
insert_by_count_before_equals(sorted, e, i) ==
    IF i > Len(sorted) \/ sorted[i].count <= e.count
    THEN SubSeq(sorted, 1, i - 1) \o <<e>> \o SubSeq(sorted, i, Len(sorted))
    ELSE insert_by_count_before_equals(sorted, e, i + 1)

RECURSIVE insert_by_count(_, _, _)
\* e placed after every entry of sorted whose count is >= e.count
insert_by_count(sorted, e, i) ==
    IF i > Len(sorted) \/ sorted[i].count < e.count
    THEN SubSeq(sorted, 1, i - 1) \o <<e>> \o SubSeq(sorted, i, Len(sorted))
    ELSE insert_by_count(sorted, e, i + 1)

RECURSIVE sort_loop(_, _, _)
sort_loop(items, i, sorted) ==
    IF i > Len(items) THEN sorted
    ELSE sort_loop(items, i + 1, insert_by_count(sorted, items[i], 1))

RECURSIVE insert_ascending(_, _, _)
insert_ascending(sorted, e, i) ==
    IF i > Len(sorted) \/ sorted[i].count > e.count
    THEN SubSeq(sorted, 1, i - 1) \o <<e>> \o SubSeq(sorted, i, Len(sorted))
    ELSE insert_ascending(sorted, e, i + 1)

RECURSIVE sort_ascending_loop(_, _, _)
sort_ascending_loop(items, i, sorted) ==
    IF i > Len(items) THEN sorted
    ELSE sort_ascending_loop(items, i + 1, insert_ascending(sorted, items[i], 1))

\* sorted_by_count with reverse=True left out: least frequent first
sorted_by_count_ascending(codes_found) ==
    sort_ascending_loop(codes_found, 1, <<>>)

\* sorted(codes_found.items(), key=count, reverse=True): a stable sort, so
\* entries of equal count keep their insertion order
sorted_by_count(codes_found) ==
    sort_loop(codes_found, 1, <<>>)

\* sync gaps counted with >= in place of >
count_sync_gaps_inclusive(timings) ==
    Cardinality({i \in 1..Len(timings) : timings[i][1] >= sync_gap_threshold})

\* the number of timings whose duration is > sync_gap_threshold
count_sync_gaps(timings) ==
    Cardinality({i \in 1..Len(timings) : timings[i][1] > sync_gap_threshold})

\* competing_codes: the top 5 of sorted_codes, percentage in tenths of a percent
competing_codes(sorted_codes, total_decoded) ==
    LET top == Take(sorted_codes, top_codes)
    IN  [i \in 1..Len(top) |->
            [code |-> top[i].code, count |-> top[i].count,
             percentage |-> RoundHalfEven(top[i].count * 1000, total_decoded)]]

\* raise RFDecodeError(error_type, message, details); the message is kept as
\* the parts of its f-string
RFDecodeError(error_type, message, details) ==
    [kind |-> "error", error_type |-> error_type, message |-> message,
     details |-> details]

\* no_signal with <= in place of <
no_signal_inclusive(total_transitions) ==
    total_transitions <= min_pulses

\* check 1: total_transitions < 40
no_signal(total_transitions) ==
    total_transitions < min_pulses

\* checks 2 and 3: found < min_segments
too_few(found, min_segments) ==
    found < min_segments

\* total_decoded = sum(d['count'] for d in codes_found.values())
total_decoded_of(codes_found) ==
    SumSeq([i \in 1..Len(codes_found) |-> codes_found[i].count])

\* is_ambiguous with <= in place of <
is_ambiguous_inclusive(best_count, total_decoded, min_confidence) ==
    best_count * 10 <= min_confidence * total_decoded

\* check 5: confidence < min_confidence, with confidence = best_count /
\* total_decoded and min_confidence in tenths
is_ambiguous(best_count, total_decoded, min_confidence) ==
    best_count * 10 < min_confidence * total_decoded

\* is_weak that lets a count one short of min_segments pass
is_weak_off_by_one(best_count, min_segments) ==
    best_count < min_segments - 1

\* check 6: best_count < min_segments
is_weak(best_count, min_segments) ==
    best_count < min_segments

\* round(confidence, 2), in hundredths
rounded_confidence(best_count, total_decoded) ==
    RoundHalfEven(best_count * 100, total_decoded)

no_signal_error(total_transitions) ==
    RFDecodeError("NO_SIGNAL",
        <<"No RF signal detected. Only", total_transitions, "transitions captured.">>,
        [transitions |-> total_transitions,
         expected_min |-> min_pulses,
         suggestion |-> "Make sure the remote is transmitting and close to the receiver."])

no_sync_gaps_error(total_transitions, num_sync_gaps, min_segments) ==
    RFDecodeError("NO_SYNC_GAPS",
        <<"No valid RF code pattern detected. Found", num_sync_gaps,
          "sync gaps, need at least", min_segments>>,
        [transitions |-> total_transitions,
         sync_gaps_found |-> num_sync_gaps,
         sync_gaps_needed |-> min_segments,
         suggestion |-> "Hold the remote button continuously while capturing. The remote may not be compatible (needs PT2262/EV1527 protocol)."])

insufficient_segments_error(total_transitions, num_sync_gaps, num_segments, min_segments) ==
    RFDecodeError("INSUFFICIENT_SEGMENTS",
        <<"Not enough valid code segments. Found", num_segments,
          "need at least", min_segments>>,
        [transitions |-> total_transitions,
         sync_gaps |-> num_sync_gaps,
         segments_found |-> num_segments,
         segments_needed |-> min_segments,
         suggestion |-> "The signal may be too weak or corrupted. Try moving the remote closer."])

decode_failed_error(total_transitions, num_sync_gaps, num_segments, decode_failures) ==
    RFDecodeError("DECODE_FAILED",
        <<"Could not decode any valid codes from", num_segments, "segments.">>,
        [transitions |-> total_transitions,
         sync_gaps |-> num_sync_gaps,
         segments_found |-> num_segments,
         decode_failures |-> decode_failures,
         suggestion |-> "The signal format may not be compatible. This decoder works with PT2262/EV1527 protocols."])

ambiguous_signal_error(total_transitions, num_segments, sorted_codes, total_decoded, min_confidence) ==
    RFDecodeError("AMBIGUOUS_SIGNAL",
        <<"Signal is ambiguous. Top code", sorted_codes[1].code, "only seen",
          sorted_codes[1].count, total_decoded>>,
        [transitions |-> total_transitions,
         segments_found |-> num_segments,
         codes_decoded |-> total_decoded,
         unique_codes |-> Len(sorted_codes),
         confidence |-> rounded_confidence(sorted_codes[1].count, total_decoded),
         confidence_needed |-> min_confidence,
         competing_codes |-> competing_codes(sorted_codes, total_decoded),
         suggestion |-> "Multiple different codes detected. Hold only ONE button, or there may be RF interference."])

weak_signal_error(best, total_decoded, min_segments) ==
    RFDecodeError("WEAK_SIGNAL",
        <<"Code", best.code, "only detected", best.count,
          "times, need at least", min_segments>>,
        [code |-> best.code,
         times_seen |-> best.count,
         times_needed |-> min_segments,
         confidence |-> rounded_confidence(best.count, total_decoded),
         suggestion |-> "The signal is too weak or intermittent. Hold the button firmly and try again."])

\* success_result with the rate taken over the primary code's count
success_result_rate_of_primary(best, num_segments, unique_codes, total_decoded) ==
    [kind |-> "success",
     code |-> best.result.code,
     pulselength |-> best.result.pulselength,
     protocol |-> best.result.protocol,
     bits |-> best.result.bits,
     short_pulse |-> best.result.short_pulse,
     long_pulse |-> best.result.long_pulse,
     times_seen |-> best.count,
     segments_found |-> num_segments,
     total_codes_found |-> unique_codes,
     confidence |-> rounded_confidence(best.count, total_decoded),
     decode_success_rate |-> RoundHalfEven(best.count * 1000, num_segments)]

\* result = best_code_data['result'].copy() and the five fields added to it;
\* confidence is in hundredths, decode_success_rate in tenths of a percent
success_result(best, num_segments, unique_codes, total_decoded) ==
    [kind |-> "success",
     code |-> best.result.code,
     pulselength |-> best.result.pulselength,
     protocol |-> best.result.protocol,
     bits |-> best.result.bits,
     short_pulse |-> best.result.short_pulse,
     long_pulse |-> best.result.long_pulse,
     times_seen |-> best.count,
     segments_found |-> num_segments,
     total_codes_found |-> unique_codes,
     confidence |-> rounded_confidence(best.count, total_decoded),
     decode_success_rate |-> RoundHalfEven(total_decoded * 1000, num_segments)]

\* checks 5 and 6 and the success result, once at least one segment decoded
vote(total_transitions, num_segments, codes_found, min_confidence, min_segments) ==
    LET sorted_codes == sorted_by_count(codes_found)
        best == sorted_codes[1]
        total_decoded == total_decoded_of(codes_found)
    IN  IF is_ambiguous(best.count, total_decoded, min_confidence)
        THEN ambiguous_signal_error(total_transitions, num_segments, sorted_codes,
                                    total_decoded, min_confidence)
        ELSE IF is_weak(best.count, min_segments)
        THEN weak_signal_error(best, total_decoded, min_segments)
        ELSE success_result(best, num_segments, Len(codes_found), total_decoded)

\* decode_all on a decoder that keeps the code of its last result: the
\* tally starts from it
decode_all_keeping_codes(timings, total_transitions, num_sync_gaps, min_confidence, min_segments) ==
    LET segments == find_code_segments(timings)
        num_segments == Len(segments)
        l == decoder_history.last
        kept == IF l.kind = "success"
                THEN <<[code |-> l.code,
                        result |-> [code |-> l.code, pulselength |-> l.pulselength,
                                    protocol |-> l.protocol, bits |-> l.bits,
                                    short_pulse |-> l.short_pulse,
                                    long_pulse |-> l.long_pulse, none |-> FALSE],
                        count |-> l.times_seen]>>
                ELSE <<>>
    IN  IF too_few(num_segments, min_segments)
        THEN insufficient_segments_error(total_transitions, num_sync_gaps,
                                         num_segments, min_segments)
        ELSE LET t == tally_loop(segments, 1, kept, 0)
             IN  IF t.codes_found = <<>>
                 THEN decode_failed_error(total_transitions, num_sync_gaps,
                                          num_segments, t.decode_failures)
                 ELSE vote(total_transitions, num_segments, t.codes_found,
                           min_confidence, min_segments)

\* checks 3 and 4, then the vote
decode_all(timings, total_transitions, num_sync_gaps, min_confidence, min_segments) ==
    LET segments == find_code_segments(timings)
        num_segments == Len(segments)
    IN  IF too_few(num_segments, min_segments)
        THEN insufficient_segments_error(total_transitions, num_sync_gaps,
                                         num_segments, min_segments)
        ELSE LET t == tally_loop(segments, 1, <<>>, 0)
             IN  IF t.codes_found = <<>>
                 THEN decode_failed_error(total_transitions, num_sync_gaps,
                                          num_segments, t.decode_failures)
                 ELSE vote(total_transitions, num_segments, t.codes_found,
                           min_confidence, min_segments)

\* analyze with checks 1 and 2 in the other order
analyze_gaps_first(timings, min_confidence, min_segments) ==
    LET total_transitions == Len(timings)
        num_sync_gaps == count_sync_gaps(timings)
    IN  IF too_few(num_sync_gaps, min_segments)
        THEN no_sync_gaps_error(total_transitions, num_sync_gaps, min_segments)
        ELSE IF no_signal(total_transitions)
        THEN no_signal_error(total_transitions)
        ELSE decode_all(timings, total_transitions, num_sync_gaps,
                        min_confidence, min_segments)

\* analyze as it was before RFDecodeError: a bare None when nothing was captured
analyze_bare_none(timings, min_confidence, min_segments) ==
    LET total_transitions == Len(timings)
        num_sync_gaps == count_sync_gaps(timings)
    IN  IF no_signal(total_transitions)
        THEN [kind |-> "none"]
        ELSE IF too_few(num_sync_gaps, min_segments)
        THEN no_sync_gaps_error(total_transitions, num_sync_gaps, min_segments)
        ELSE decode_all(timings, total_transitions, num_sync_gaps,
                        min_confidence, min_segments)

\* what capture_single_window returns or raises for the buffer timings:
\* checks 1 and 2, then the rest
analyze(timings, min_confidence, min_segments) ==
    LET total_transitions == Len(timings)
        num_sync_gaps == count_sync_gaps(timings)
    IN  IF no_signal(total_transitions)
        THEN no_signal_error(total_transitions)
        ELSE IF too_few(num_sync_gaps, min_segments)
        THEN no_sync_gaps_error(total_transitions, num_sync_gaps, min_segments)
        ELSE decode_all(timings, total_transitions, num_sync_gaps,
                        min_confidence, min_segments)

\* ------------------------------------------------------------------------
\* The pulse source: what is on the air during one capture window, and the
\* timings capture_raw_timings reads from the pin for it
\* ------------------------------------------------------------------------

\* the most chunks (frames, runs, gaps) of a freely mixed transmission
MaxChunks == 3

\* the most repetitions of one frame in a burst
MaxRepeat == 6

\* the sync gap of the calibrated remote, ~5700 us
sync_gap_us == 5700

\* the calibrated short and long pulse, ~180 us and ~550 us
short_us == 180

long_us == 550

RECURSIVE code_bits(_, _)
\* format(code, '024b'), most significant bit first (n bits)
code_bits(code, n) ==
    IF n = 0 THEN <<>>
    ELSE Append(code_bits(code \div 2, n - 1), code % 2)

\* the sign of the shift of bit j's pulses: every pulse up, every pulse
\* down, or up and down in turn; "apart" moves the short pulses down and the
\* long ones up, "together" the other way round
shift_sign(dir, j, is_short) ==
    CASE dir = "up" -> 1
      [] dir = "down" -> -1
      [] dir = "alt" -> IF j % 2 = 1 THEN 1 ELSE -1
      [] dir = "apart" -> IF is_short THEN -1 ELSE 1
      [] dir = "together" -> IF is_short THEN 1 ELSE -1

\* the 48 data pulses of a frame: bit 0 is short, long; bit 1 is long,
\* short; every short pulse is off by f.ds and every long one by f.dl, in
\* the direction f.dir gives (a clean frame has ds = dl = 0)
encode_frame(f) ==
    LET bits == code_bits(f.code, frame_bits)
        sh(j) == f.short + shift_sign(f.dir, j, TRUE) * f.ds
        lg(j) == f.long + shift_sign(f.dir, j, FALSE) * f.dl
    IN  [i \in 1..(2 * frame_bits) |->
            LET j == (i + 1) \div 2
            IN  IF (bits[j] = 0) = (i % 2 = 1) THEN sh(j) ELSE lg(j)]

\* n pulses of the same duration d
run_of(d, n) ==
    [i \in 1..n |-> d]

RECURSIVE repeat(_, _)
\* chunk, n times
repeat(chunk, n) ==
    IF n = 0 THEN <<>> ELSE chunk \o repeat(chunk, n - 1)

RECURSIVE concat(_)
\* the concatenation of a sequence of sequences
concat(chunks) ==
    IF chunks = <<>> THEN <<>> ELSE Head(chunks) \o concat(Tail(chunks))

\* capture_raw_timings appends (pulse_us, last_state): the level alternates
with_levels(durations) ==
    [i \in 1..Len(durations) |-> <<durations[i], i % 2>>]

\* the codes the remotes of the model send; the first two are buttons A and
\* B, the last is not above the noise floor
CodeList ==
    <<1234567, 1234568, 1001, 16777215, 8388608, 5592405, 1000>>

CodeA == CodeList[1]

CodeB == CodeList[2]

\* what can be on the air: a frame, a sync gap, a run of n equal pulses
Frame(code, short, long, ds, dl, dir) ==
    [kind |-> "frame", code |-> code, short |-> short, long |-> long,
     ds |-> ds, dl |-> dl, dir |-> dir]

CleanFrame(code) ==
    Frame(code, short_us, long_us, 0, 0, "up")

Gap ==
    [kind |-> "gap"]

Run(n) ==
    [kind |-> "run", n |-> n]

\* n pulses of d microseconds each
Pulses(d, n) ==
    [kind |-> "pulses", d |-> d, n |-> n]

\* the low n bits of code, sent as a clean frame of n bits
Word(code, n) ==
    [kind |-> "word", code |-> code, n |-> n]

\* the clean frame of code with its k-th pulse replaced by one of d
\* microseconds
Corrupted(code, k, d) ==
    [kind |-> "corrupted", code |-> code, k |-> k, d |-> d]

\* the pulses of the bits: bit 0 is short, long; bit 1 is long, short
encode_bits(bits) ==
    [i \in 1..(2 * Len(bits)) |->
        IF (bits[(i + 1) \div 2] = 0) = (i % 2 = 1) THEN short_us ELSE long_us]

\* the pulses the pin delivers for one item
pulses_of(item) ==
    CASE item.kind = "frame" -> encode_frame(item)
      [] item.kind = "gap" -> <<sync_gap_us>>
      [] item.kind = "run" -> run_of(short_us, item.n)
      [] item.kind = "pulses" -> run_of(item.d, item.n)
      [] item.kind = "word" -> encode_bits(code_bits(item.code, item.n))
      [] item.kind = "corrupted" ->
            [encode_bits(code_bits(item.code, frame_bits)) EXCEPT ![item.k] = item.d]

\* the timings capture_raw_timings returns for the transmission tx
timings_of(tx) ==
    with_levels(concat([i \in 1..Len(tx) |-> pulses_of(tx[i])]))

\* the chunks a mixed transmission is made of
Chunk(kind) ==
    CASE kind = "A" -> <<CleanFrame(CodeA), Gap>>
      [] kind = "B" -> <<CleanFrame(CodeB), Gap>>
      \* a full-length segment that cannot decode: no long pulse at all
      [] kind = "F" -> <<Run(2 * frame_bits), Gap>>
      \* a run too short to be a segment, closed by a gap
      [] kind = "S" -> <<Run(min_band_samples), Gap>>
      \* 40 pulses of noise and no gap
      [] kind = "N" -> <<Run(min_pulses)>>

ChunkKinds ==
    {"A", "B", "F", "S", "N"}

RECURSIVE SeqsUpTo(_, _)
\* the sequences over S of length at most n
SeqsUpTo(S, n) ==
    IF n = 0 THEN {<<>>}
    ELSE LET shorter == SeqsUpTo(S, n - 1)
         IN  shorter \cup {Append(q, x) : q \in {r \in shorter : Len(r) = n - 1}, x \in S}

\* transmissions mixed freely from at most MaxChunks chunks
MixedTx ==
    {concat([i \in 1..Len(ks) |-> Chunk(ks[i])]) : ks \in SeqsUpTo(ChunkKinds, MaxChunks)}

\* a button held (a frames of A), then another (b frames of B); the gap
\* follows each frame, or (lead) comes before each frame
burst(a, b, lead) ==
    IF lead
    THEN repeat(<<Gap, CleanFrame(CodeA)>>, a) \o repeat(<<Gap, CleanFrame(CodeB)>>, b)
    ELSE repeat(<<CleanFrame(CodeA), Gap>>, a) \o repeat(<<CleanFrame(CodeB), Gap>>, b)

BurstTx ==
    {burst(a, b, lead) : a \in 0..MaxRepeat, b \in 0..MaxRepeat, lead \in BOOLEAN}

\* one frame of each of the first k codes of CodeList
DistinctTx ==
    {concat([i \in 1..k |-> <<CleanFrame(CodeList[i]), Gap>>]) : k \in 0..Len(CodeList)}

\* fewer than 40 transitions, exactly 40, and one more
EdgeTx ==
    {<<Run(n)>> : n \in {0, min_pulses - 1, min_pulses, min_pulses + 1}}

Transmissions ==
    MixedTx \cup BurstTx \cup DistinctTx \cup EdgeTx

\* the most repetitions of the frame in a synthetic train
MaxTrainRepeat == 4

\* the codes of the synthetic trains: the ends of (1000, 2^24), the powers
\* of two between them and their successors, the alternating patterns
RoundTripCodes ==
    {1001, 16777215, 16777214, 5592405, 11184810, CodeA, CodeB}
        \cup {2 ^ k : k \in 10..23} \cup {2 ^ k + 1 : k \in 10..23}

\* <<short, long>> of the synthetic trains: inside the bands, from 1:2.5
\* to 1:3.5
PulseWidths ==
    {<<short_us, long_us>>, <<151, 453>>, <<270, 810>>, <<399, 1197>>,
     <<200, 500>>, <<200, 700>>}

\* the frame of code c at widths w, n times, a sync gap after each
train(c, w, n) ==
    repeat(<<Frame(c, w[1], w[2], 0, 0, "up"), Gap>>, n)

RoundTripTx ==
    {train(c, w, n) : c \in RoundTripCodes, w \in PulseWidths, n \in 3..MaxTrainRepeat}

\* tolerance * band_mean of a clean frame's band
tolerance_of(mean) ==
    (mean * tolerance_num) \div tolerance_den

\* the frame of code c at widths w with every pulse moved by
\* tolerance * band_mean + eps in the direction dir
shifted(c, w, eps, dir) ==
    Frame(c, w[1], w[2], tolerance_of(w[1]) + eps, tolerance_of(w[2]) + eps, dir)

ShiftDirs ==
    {"up", "down", "alt", "apart", "together"}

\* <<short, long>> of the shifted frames; 0.4 of each is a whole number
ShiftWidths ==
    {<<short_us, long_us>>, <<270, 810>>, <<300, 900>>}

\* a shifted frame, three times: just under, at, and just over
\* tolerance * band_mean
ToleranceTx ==
    {repeat(<<shifted(c, w, eps, dir), Gap>>, default_min_segments) :
        c \in {CodeA, 5592405}, w \in ShiftWidths, eps \in {-1, 0, 1}, dir \in ShiftDirs}

\* ------------------------------------------------------------------------
\* State
\* ------------------------------------------------------------------------

VARIABLES
    pc,               \* where the current call is: "idle", "capturing",
                      \* "returned" (a result), "raised" (an exception)
    caller,           \* who made the call: "none", "direct", "sniffer", or
                      \* "receive" for a call made by receive()
    setup_done,       \* CustomRFDecoder._setup_done of the decoder in use
    pin_claimed,      \* GPIO.setup(pin, IN) done and GPIO.cleanup(pin) not yet
    min_confidence,   \* the call's min_confidence, in tenths
    min_segments,     \* the call's min_segments
    sent,             \* what was on the air during the call's capture window
    timings,          \* the call's captured buffer: <<pulse_us, state>> pairs
    outcome,          \* what the call returned or raised
    event             \* the last event run_sniffer published for its session

\* the sniffer service: its module globals, Redis, and its threads
VARIABLES
    sniffer_active,   \* the global sniffer_active
    stop_sniffer,     \* the threading.Event stop_sniffer: set or not
    status,           \* the Redis key sniffer:status
    published,        \* the messages published on sniffer_results, in order
    requests,         \* how many commands handle_command has been given
    handler,          \* where handle_command is in the command it handles, the
                      \* command's action and request_id, and the value of
                      \* sniffer_active it read
    threads           \* request_id -> the run_sniffer thread started for it

\* a call of receive(timeout)
VARIABLES
    receive_timeout   \* how many capture windows fit into the call's timeout

\* the configuration file and the controller
VARIABLES
    switches,         \* config['switches'], in file order
    controlled        \* the last call of control_outlet on the present
                      \* configuration: its arguments, its send_code calls and
                      \* whether it raised

\* what the modules hold once imported, and the configuration file
VARIABLES
    RF_AVAILABLE,         \* sniffer_service.RF_AVAILABLE
    USE_CUSTOM_DECODER,   \* sniffer_service.USE_CUSTOM_DECODER
    config_file,          \* CONFIG_FILE: "present" or "missing"
    lock,                 \* config_manager._lock: "free" or the call holding it
    loading,              \* where a call of load_config or save_config is
    raised                \* the exception the last call on the switches raised

decoder_vars ==
    <<pc, caller, setup_done, pin_claimed, min_confidence, min_segments,
      sent, timings, outcome, event, decoder_history, receive_timeout>>

config_vars ==
    <<switches, controlled>>

service_vars ==
    <<sniffer_active, stop_sniffer, status, published, requests, handler, threads>>

module_vars ==
    <<RF_AVAILABLE, USE_CUSTOM_DECODER, config_file, lock, loading, raised>>

vars ==
    <<pc, caller, setup_done, pin_claimed, min_confidence, min_segments,
      sent, timings, outcome, event,
      sniffer_active, stop_sniffer, status, published, requests, handler, threads,
      decoder_history, receive_timeout, switches, controlled,
      RF_AVAILABLE, USE_CUSTOM_DECODER, config_file, lock, loading, raised>>

\* the largest min_segments a caller passes
MaxMinSegments == 3

\* the min_confidence values a caller passes, in tenths
MinConfidences ==
    {0, 5, 7, 10}

MinSegments ==
    0..MaxMinSegments

NoOutcome ==
    [kind |-> "none"]

\* control_outlet has not been called on the present configuration
NoControl ==
    [called |-> FALSE, outlet_id |-> 0, state |-> <<>>,
     send_code_calls |-> <<>>, raised |-> FALSE]

\* the most commands given to handle_command
MaxCommands == 3

\* the request ids of the commands: the n-th command carries n
RequestIds ==
    1..MaxCommands

\* no thread was started for the request
NoThread ==
    [pc |-> "none", outcome |-> NoOutcome, pin_claimed |-> FALSE]

\* an exception that is not an RFDecodeError
UnexpectedError ==
    [kind |-> "exception", error |-> "RuntimeError"]

\* no call of load_config or save_config is under way
NoLoading ==
    [pc |-> "idle", call |-> "none"]

\* the processes before their first call and command
InitProgram ==
    /\ pc = "idle"
    /\ caller = "none"
    /\ setup_done = FALSE
    /\ pin_claimed = FALSE
    /\ min_confidence = default_min_confidence
    /\ min_segments = default_min_segments
    /\ sent = <<>>
    /\ timings = <<>>
    /\ outcome = NoOutcome
    /\ event = "none"
    /\ sniffer_active = FALSE
    /\ stop_sniffer = FALSE
    /\ status = [active |-> FALSE]
    /\ published = <<>>
    /\ requests = 0
    /\ handler = [pc |-> "listening", request_id |-> 0, action |-> "none", busy |-> FALSE]
    /\ threads = [t \in RequestIds |-> NoThread]
    /\ decoder_history = NoHistory
    /\ receive_timeout = 0
    /\ switches = <<>>
    /\ controlled = NoControl
    /\ lock = "free"
    /\ loading = NoLoading
    /\ raised = "none"

\* the custom decoder was imported and the configuration file exists
Init ==
    /\ InitProgram
    /\ RF_AVAILABLE = TRUE
    /\ USE_CUSTOM_DECODER = TRUE
    /\ config_file = "present"

\* ------------------------------------------------------------------------
\* Actions
\* ------------------------------------------------------------------------

\* a caller that holds a decoder calls capture_single_window(duration, mc, ms):
\* self.setup(), then the capture loop starts
capture_single_window(mc, ms) ==
    /\ pc # "capturing"
    /\ pc' = "capturing"
    /\ caller' = "direct"
    /\ setup_done' = TRUE
    /\ pin_claimed' = TRUE
    /\ min_confidence' = mc
    /\ min_segments' = ms
    /\ sent' = <<>>
    /\ timings' = <<>>
    /\ outcome' = NoOutcome
    /\ event' = "none"
    /\ UNCHANGED <<decoder_history, receive_timeout>>
    /\ UNCHANGED <<service_vars, config_vars, module_vars>>

\* run_sniffer up to its call of capture_single_window: 'started' is
\* published, a fresh decoder is made and called with the defaults
run_sniffer_capture ==
    /\ pc # "capturing"
    /\ pc' = "capturing"
    /\ caller' = "sniffer"
    /\ setup_done' = TRUE
    /\ pin_claimed' = TRUE
    /\ min_confidence' = default_min_confidence
    /\ min_segments' = default_min_segments
    /\ sent' = <<>>
    /\ timings' = <<>>
    /\ outcome' = NoOutcome
    /\ event' = "started"
    /\ UNCHANGED <<decoder_history, receive_timeout>>
    /\ UNCHANGED <<service_vars, config_vars, module_vars>>

\* the capture loop ends, having read the transmission tx from the pin, and
\* capture_single_window runs its gates on the timings: it returns a result
\* or raises RFDecodeError. Nothing on either path calls cleanup()
window_closes(tx) ==
    /\ pc = "capturing"
    /\ sent' = tx
    /\ timings' = timings_of(tx)
    /\ outcome' = analyze(timings', min_confidence, min_segments)
    /\ pc' = IF outcome'.kind = "success" THEN "returned" ELSE "raised"
    /\ UNCHANGED <<caller, setup_done, pin_claimed, min_confidence, min_segments, event>>

capture_window_closes(tx) ==
    /\ window_closes(tx)
    /\ UNCHANGED <<decoder_history, receive_timeout>>
    /\ UNCHANGED <<service_vars, config_vars, module_vars>>

\* the history h with one more analysed call
note_call(h, tm, mc, ms, o) ==
    [first |-> IF h.first.kind = "none"
               THEN [kind |-> "call", timings |-> tm, min_confidence |-> mc,
                     min_segments |-> ms, outcome |-> o]
               ELSE h.first,
     others |-> h.others \/ (h.first.kind = "call" /\ h.first.timings # tm),
     last |-> o]

\* the same step, noted in the history of the decoder
capture_window_closes_noted(tx) ==
    /\ window_closes(tx)
    /\ decoder_history' = note_call(decoder_history, timings', min_confidence,
                                    min_segments, outcome')
    /\ UNCHANGED receive_timeout
    /\ UNCHANGED <<service_vars, config_vars, module_vars>>

\* GPIO.input raises inside the capture loop
capture_raw_timings_fails ==
    /\ pc = "capturing"
    /\ outcome' = UnexpectedError
    /\ pc' = "raised"
    /\ UNCHANGED <<caller, setup_done, pin_claimed, min_confidence, min_segments,
                   sent, timings, event>>
    /\ UNCHANGED <<decoder_history, receive_timeout>>
    /\ UNCHANGED <<service_vars, config_vars, module_vars>>

\* the rest of run_sniffer: on a result it publishes 'captured' (or 'timeout'
\* for a falsy result) and calls decoder.cleanup(); on any exception it
\* publishes 'error' and does not reach decoder.cleanup()
run_sniffer_finishes ==
    /\ caller = "sniffer"
    /\ pc \in {"returned", "raised"}
    /\ IF pc = "returned"
       THEN /\ event' = IF outcome.code > noise_floor THEN "captured" ELSE "timeout"
            /\ setup_done' = FALSE
            /\ pin_claimed' = FALSE
       ELSE /\ event' = "error"
            /\ UNCHANGED <<setup_done, pin_claimed>>
    /\ pc' = "idle"
    /\ UNCHANGED <<caller, min_confidence, min_segments, sent, timings, outcome>>
    /\ UNCHANGED <<decoder_history, receive_timeout>>
    /\ UNCHANGED <<service_vars, config_vars, module_vars>>

\* the caller of capture_single_window or of receive calls
\* decoder.cleanup() after its call
cleanup ==
    /\ caller \in {"direct", "receive"}
    /\ pc \in {"returned", "raised"}
    /\ pin_claimed' = (IF setup_done THEN FALSE ELSE pin_claimed)
    /\ setup_done' = FALSE
    /\ pc' = "idle"
    /\ UNCHANGED <<caller, min_confidence, min_segments, sent, timings, outcome, event>>
    /\ UNCHANGED <<decoder_history, receive_timeout>>
    /\ UNCHANGED <<service_vars, config_vars, module_vars>>

Next ==
    \/ \E mc \in MinConfidences, ms \in MinSegments : capture_single_window(mc, ms)
    \/ run_sniffer_capture
    \/ \E tx \in Transmissions : capture_window_closes(tx)
    \/ capture_raw_timings_fails
    \/ run_sniffer_finishes
    \/ cleanup

Spec ==
    Init /\ [][Next]_vars

\* the most capture windows that fit into the timeout of receive
MaxWindows == 2

\* what receive returns when its while loop has ended: None
ReceivedNothing ==
    [kind |-> "nothing"]

\* receive(timeout): self.setup(), then the while loop. With no time left
\* it returns None; otherwise it calls capture_single_window(duration=2.0),
\* whose result it returns and whose exceptions it does not catch (the
\* loop goes round again only for a falsy result, which
\* capture_single_window never returns)
receive(timeout) ==
    /\ pc # "capturing"
    /\ caller' = "receive"
    /\ setup_done' = TRUE
    /\ pin_claimed' = TRUE
    /\ receive_timeout' = timeout
    /\ min_confidence' = default_min_confidence
    /\ min_segments' = default_min_segments
    /\ sent' = <<>>
    /\ timings' = <<>>
    /\ event' = "none"
    /\ IF timeout = 0
       THEN pc' = "returned" /\ outcome' = ReceivedNothing
       ELSE pc' = "capturing" /\ outcome' = NoOutcome
    /\ UNCHANGED decoder_history
    /\ UNCHANGED <<service_vars, config_vars, module_vars>>

\* calls of receive
NextReceive ==
    \/ \E timeout \in 0..MaxWindows : receive(timeout)
    \/ \E tx \in Transmissions : capture_window_closes(tx)
    \/ capture_raw_timings_fails
    \/ cleanup

SpecReceive ==
    Init /\ [][NextReceive]_vars

\* the most frames of a transmission of several buttons in turn
MaxVotes == 4

\* a frame of the k-th code and its sync gap; for k = 0 a segment that does
\* not decode
vote_chunk(k) ==
    IF k = 0 THEN <<Run(2 * frame_bits), Gap>> ELSE <<CleanFrame(CodeList[k]), Gap>>

\* three buttons and undecodable segments in every order
VoteTx ==
    {concat([i \in 1..Len(ks) |-> vote_chunk(ks[i])]) : ks \in SeqsUpTo(0..3, MaxVotes)}

\* the min_segments values the vote is checked under: a single sighting and
\* the default
VoteMinSegments ==
    {1, default_min_segments}

\* calls of capture_single_window on several buttons in turn
NextVote ==
    \/ \E mc \in MinConfidences, ms \in VoteMinSegments : capture_single_window(mc, ms)
    \/ \E tx \in VoteTx : capture_window_closes(tx)
    \/ capture_raw_timings_fails
    \/ cleanup

SpecVote ==
    Init /\ [][NextVote]_vars

\* the most repetitions of one segment in a train of segments
MaxSegmentRepeat == 4

\* the codes of the words: at and just over the noise floor, button A, and
\* bits in turn
WordCodes ==
    {noise_floor, noise_floor + 1, CodeA, 11184810}

\* the lengths of the words, from one bit under the least accepted number of
\* bits to one over the greatest
WordBits ==
    (min_bits - 1)..(max_bits + 1)

\* the durations a corrupted pulse has: a glitch, and a pulse stretched
\* beyond the long band
CorruptDurations ==
    {30, 2000}

\* what sits between two sync gaps: a word, a word followed by two short
\* pulses, a frame with its short or long pulses on the edge of their band,
\* a frame with one pulse corrupted
SegmentBodies ==
    {<<Word(c, n)>> : c \in WordCodes, n \in WordBits}
    \cup {<<Word(c, n), Pulses(short_us, 2)>> : c \in WordCodes, n \in WordBits}
    \cup {<<Frame(CodeA, sh, lg, 0, 0, "up")>> :
              sh \in {short_band_lo, short_band_lo + 1},
              lg \in {long_band_hi - 1, long_band_hi}}
    \cup {<<Corrupted(c, k, d)>> :
              c \in {CodeA, CodeB}, k \in 1..(2 * frame_bits), d \in CorruptDurations}

\* the body n times, a sync gap after each
segment_train(body, n) ==
    repeat(body \o <<Gap>>, n)

DecodeTx ==
    {segment_train(b, n) : b \in SegmentBodies, n \in default_min_segments..MaxSegmentRepeat}

\* calls of capture_single_window on trains of one segment
NextDecode ==
    \/ capture_single_window(default_min_confidence, default_min_segments)
    \/ \E tx \in DecodeTx : capture_window_closes(tx)
    \/ capture_raw_timings_fails
    \/ cleanup

SpecDecode ==
    Init /\ [][NextDecode]_vars

\* the most pieces of a transmission made of plain runs of pulses
MaxPieces == 5

\* runs just under, at and over the least length of a segment, of pulses
\* below and exactly at the gap threshold, and a pulse just over it
Pieces ==
    {Pulses(sync_gap_threshold, min_pulses),
     Pulses(300, min_pulses - 1),
     Pulses(300, min_pulses + 1),
     Pulses(sync_gap_threshold + 1, 1)}

SegmentsTx ==
    SeqsUpTo(Pieces, MaxPieces)

\* calls of capture_single_window on runs of pulses
NextSegments ==
    \/ \E ms \in MinSegments : capture_single_window(default_min_confidence, ms)
    \/ \E tx \in SegmentsTx : capture_window_closes(tx)
    \/ capture_raw_timings_fails
    \/ cleanup

SpecSegments ==
    Init /\ [][NextSegments]_vars

\* ------------------------------------------------------------------------
\* config_manager and controller
\* ------------------------------------------------------------------------

\* the most switches in the configuration
MaxSwitches == 3

\* the largest switch id
MaxSwitchId == 4

\* <<on_code, off_code>> of the switches
CodePairs ==
    {<<CodeA, CodeB>>, <<111, 112>>}

\* the ids of the switches
switch_ids(sw) ==
    {sw[i].id : i \in 1..Len(sw)}

\* max(s['id'] for s in switches)
max_id(sw) ==
    CHOOSE m \in switch_ids(sw) : \A n \in switch_ids(sw) : n <= m

\* the next id taken as the number of switches plus one
get_next_id_by_count(sw) ==
    Len(sw) + 1

\* get_next_id on the switches sw
get_next_id(sw) ==
    IF sw = <<>> THEN 1 ELSE max_id(sw) + 1

\* load_config returns the configuration to its caller: the file is there
\* and no other call holds the lock
load_config_returns ==
    /\ config_file = "present"
    /\ lock = "free"
    /\ loading = NoLoading

\* the duplicate check left out
is_duplicate_never(sw, id) ==
    FALSE

\* any(s['id'] == switch_id for s in switches)
is_duplicate(sw, id) ==
    id \in switch_ids(sw)

\* add_switch(name, on_code, off_code, switch_id): switch_id is <<>> for
\* None and <<id>> for a given id; a duplicate id raises ValueError and
\* changes nothing
add_switch(codes, switch_id) ==
    LET id == IF switch_id = <<>> THEN get_next_id(switches) ELSE switch_id[1]
    IN  /\ load_config_returns
        /\ Len(switches) < MaxSwitches
        /\ id <= MaxSwitchId
        /\ IF is_duplicate(switches, id)
           THEN /\ raised' = "ValueError"
                /\ UNCHANGED switches
           ELSE /\ raised' = "none"
                /\ switches' = Append(switches,
                                    [id |-> id, name |-> "switch",
                                     on_code |-> codes[1], off_code |-> codes[2]])
        /\ controlled' = NoControl
        /\ UNCHANGED <<RF_AVAILABLE, USE_CUSTOM_DECODER, config_file, lock, loading>>
        /\ UNCHANGED <<decoder_vars, service_vars>>

\* one switch after update_switch(switch_id, name, on_code, off_code): an
\* argument is <<>> for None and <<value>> for a value
updated(s, name, on_code, off_code) ==
    [id |-> s.id,
     name |-> IF name = <<>> THEN s.name ELSE name[1],
     on_code |-> IF on_code = <<>> THEN s.on_code ELSE on_code[1],
     off_code |-> IF off_code = <<>> THEN s.off_code ELSE off_code[1]]

\* update_switch(switch_id, name, on_code, off_code): the first switch with
\* the id is updated; an id not found raises ValueError and changes nothing
update_switch(switch_id, name, on_code, off_code) ==
    /\ load_config_returns
    /\ IF switch_id \in switch_ids(switches)
       THEN LET first == CHOOSE i \in 1..Len(switches) :
                            /\ switches[i].id = switch_id
                            /\ \A j \in 1..(i - 1) : switches[j].id # switch_id
            IN  /\ switches' = [switches EXCEPT
                                  ![first] = updated(@, name, on_code, off_code)]
                /\ raised' = "none"
       ELSE /\ raised' = "ValueError"
            /\ UNCHANGED switches
    /\ controlled' = NoControl
    /\ UNCHANGED <<RF_AVAILABLE, USE_CUSTOM_DECODER, config_file, lock, loading>>
    /\ UNCHANGED <<decoder_vars, service_vars>>

\* s with s['id'] != switch_id
is_other(s, switch_id) ==
    s.id # switch_id

\* delete_switch(switch_id): an id not found raises ValueError and changes
\* nothing
delete_switch(switch_id) ==
    /\ load_config_returns
    /\ switches' = SelectSeq(switches, LAMBDA s : is_other(s, switch_id))
    /\ raised' = IF Len(switches') = Len(switches) THEN "ValueError" ELSE "none"
    /\ controlled' = NoControl
    /\ UNCHANGED <<RF_AVAILABLE, USE_CUSTOM_DECODER, config_file, lock, loading>>
    /\ UNCHANGED <<decoder_vars, service_vars>>

\* get_outlets_dict: id -> on and off code; of two switches with one id the
\* later one stays
get_outlets_dict(sw) ==
    [id \in switch_ids(sw) |->
        LET last == CHOOSE i \in 1..Len(sw) :
                        /\ sw[i].id = id
                        /\ \A j \in (i + 1)..Len(sw) : sw[j].id # id
        IN  [on |-> sw[last].on_code, off |-> sw[last].off_code]]

upper_case ==
    <<"A", "B", "C", "D", "E", "F", "G", "H", "I", "J", "K", "L", "M",
      "N", "O", "P", "Q", "R", "S", "T", "U", "V", "W", "X", "Y", "Z">>

lower_case ==
    <<"a", "b", "c", "d", "e", "f", "g", "h", "i", "j", "k", "l", "m",
      "n", "o", "p", "q", "r", "s", "t", "u", "v", "w", "x", "y", "z">>

\* a state left in the case it came in
lower_unchanged(chars) ==
    chars

\* str.lower(), character by character
lower(chars) ==
    [i \in 1..Len(chars) |->
        IF \E k \in 1..Len(upper_case) : upper_case[k] = chars[i]
        THEN lower_case[CHOOSE k \in 1..Len(upper_case) : upper_case[k] = chars[i]]
        ELSE chars[i]]

\* the states control_outlet is called with: strings, character by
\* character (the command line and the backend both pass a str)
States ==
    {<<"o", "n">>, <<"O", "N">>, <<"o", "f", "f">>, <<"O", "f", "F">>,
     <<"i", "n", "v", "a", "l", "i", "d">>, <<"o", "n", " ">>, <<"o">>, <<>>}

\* control_outlet(outlet_id, state): what it sends and whether it raises
control_outlet(outlet_id, state) ==
    LET outlets == get_outlets_dict(switches)
        call == [called |-> TRUE, outlet_id |-> outlet_id, state |-> state,
                 send_code_calls |-> <<>>, raised |-> FALSE]
    IN  /\ controlled' =
              IF outlet_id \notin DOMAIN outlets THEN call
              ELSE IF lower(state) \notin {<<"o", "n">>, <<"o", "f", "f">>} THEN call
              ELSE IF lower(state) = <<"o", "n">>
              THEN [call EXCEPT !.send_code_calls = <<outlets[outlet_id].on>>]
              ELSE [call EXCEPT !.send_code_calls = <<outlets[outlet_id].off>>]
        /\ load_config_returns
        /\ raised' = "none"
        /\ UNCHANGED switches
        /\ UNCHANGED <<RF_AVAILABLE, USE_CUSTOM_DECODER, config_file, lock, loading>>
        /\ UNCHANGED <<decoder_vars, service_vars>>

\* load_config is called: with _lock
load_config_called ==
    /\ loading = NoLoading
    /\ lock = "free"
    /\ lock' = "load_config"
    /\ loading' = [pc |-> "opening", call |-> "load_config"]
    /\ raised' = "none"
    /\ UNCHANGED <<RF_AVAILABLE, USE_CUSTOM_DECODER, config_file>>
    /\ UNCHANGED <<decoder_vars, service_vars, config_vars>>

\* the file is opened and parsed, the configuration returned and the lock
\* released
load_config_reads ==
    /\ loading = [pc |-> "opening", call |-> "load_config"]
    /\ config_file = "present"
    /\ lock' = "free"
    /\ loading' = NoLoading
    /\ UNCHANGED <<RF_AVAILABLE, USE_CUSTOM_DECODER, config_file, raised>>
    /\ UNCHANGED <<decoder_vars, service_vars, config_vars>>

\* json.load raises JSONDecodeError: it is logged and raised again, the lock
\* released
load_config_invalid_json ==
    /\ loading = [pc |-> "opening", call |-> "load_config"]
    /\ config_file = "invalid"
    /\ lock' = "free"
    /\ loading' = NoLoading
    /\ raised' = "JSONDecodeError"
    /\ UNCHANGED <<RF_AVAILABLE, USE_CUSTOM_DECODER, config_file>>
    /\ UNCHANGED <<decoder_vars, service_vars, config_vars>>

\* open raises FileNotFoundError: the default configuration is made and
\* save_config called, inside the with block of load_config
load_config_file_not_found ==
    /\ loading = [pc |-> "opening", call |-> "load_config"]
    /\ config_file = "missing"
    /\ loading' = [pc |-> "save_config", call |-> "load_config"]
    /\ UNCHANGED <<RF_AVAILABLE, USE_CUSTOM_DECODER, config_file, lock, raised>>
    /\ UNCHANGED <<decoder_vars, service_vars, config_vars>>

\* save_config is called by a caller that has the configuration (as
\* update_settings does after its load_config)
save_config_called ==
    /\ load_config_returns
    /\ loading' = [pc |-> "save_config", call |-> "save_config"]
    /\ raised' = "none"
    /\ UNCHANGED <<RF_AVAILABLE, USE_CUSTOM_DECODER, config_file, lock>>
    /\ UNCHANGED <<decoder_vars, service_vars, config_vars>>

\* save_config: with _lock, which waits until the lock is free
save_config_locks ==
    /\ loading.pc = "save_config"
    /\ lock = "free"
    /\ lock' = "save_config"
    /\ loading' = [loading EXCEPT !.pc = "writing"]
    /\ UNCHANGED <<RF_AVAILABLE, USE_CUSTOM_DECODER, config_file, raised>>
    /\ UNCHANGED <<decoder_vars, service_vars, config_vars>>

\* save_config writes the file, releases the lock and returns; a load_config
\* that called it returns the configuration
save_config_writes ==
    /\ loading.pc = "writing"
    /\ config_file' = "present"
    /\ lock' = "free"
    /\ loading' = NoLoading
    /\ UNCHANGED <<RF_AVAILABLE, USE_CUSTOM_DECODER, raised>>
    /\ UNCHANGED <<decoder_vars, service_vars, config_vars>>

\* the configuration file exists, is missing, or is no JSON
InitFile ==
    /\ InitProgram
    /\ RF_AVAILABLE = TRUE
    /\ USE_CUSTOM_DECODER = TRUE
    /\ config_file \in {"present", "missing", "invalid"}

\* calls of load_config and save_config, and of add_switch and
\* delete_switch
NextFile ==
    \/ load_config_called
    \/ load_config_reads
    \/ load_config_invalid_json
    \/ load_config_file_not_found
    \/ save_config_called
    \/ save_config_locks
    \/ save_config_writes
    \/ \E codes \in CodePairs, switch_id \in {<<>>} \cup {<<id>> : id \in 1..MaxSwitchId} :
          add_switch(codes, switch_id)
    \/ \E switch_id \in 1..MaxSwitchId : delete_switch(switch_id)

\* a call under way goes on whenever it can
SpecFile ==
    InitFile /\ [][NextFile]_vars /\ WF_vars(NextFile)

\* what update_switch is called with: a new name, or new codes
Updates ==
    {[name |-> <<"lamp">>, on_code |-> <<>>, off_code |-> <<>>],
     [name |-> <<>>, on_code |-> <<111>>, off_code |-> <<112>>],
     [name |-> <<>>, on_code |-> <<>>, off_code |-> <<>>]}

\* calls of add_switch, update_switch and delete_switch
NextCrud ==
    \/ \E switch_id \in {<<>>} \cup {<<id>> : id \in 1..MaxSwitchId} :
          add_switch(<<CodeA, CodeB>>, switch_id)
    \/ \E switch_id \in 1..MaxSwitchId, u \in Updates :
          update_switch(switch_id, u.name, u.on_code, u.off_code)
    \/ \E switch_id \in 1..MaxSwitchId : delete_switch(switch_id)

SpecCrud ==
    Init /\ [][NextCrud]_vars

NextConfig ==
    \/ \E codes \in CodePairs, switch_id \in {<<>>} \cup {<<id>> : id \in 1..MaxSwitchId} :
          add_switch(codes, switch_id)
    \/ \E switch_id \in 1..MaxSwitchId : delete_switch(switch_id)
    \/ \E outlet_id \in 0..(MaxSwitchId + 1), state \in States :
          control_outlet(outlet_id, state)

SpecConfig ==
    Init /\ [][NextConfig]_vars

\* what one decoder captures, call after call: button A held, button B
\* held, A then B, nothing
HistoryTx ==
    {burst(3, 0, FALSE), burst(0, 3, FALSE), burst(2, 1, FALSE), <<>>}

\* calls of capture_single_window on one decoder, one after another
NextHistory ==
    \/ \E mc \in {default_min_confidence, 7},
          ms \in {default_min_segments - 1, default_min_segments} :
              capture_single_window(mc, ms)
    \/ \E tx \in HistoryTx : capture_window_closes_noted(tx)
    \/ capture_raw_timings_fails
    \/ cleanup

SpecHistory ==
    Init /\ [][NextHistory]_vars

\* ------------------------------------------------------------------------
\* The sniffer service: handle_command on the listener thread, run_sniffer on
\* the threads it starts
\* ------------------------------------------------------------------------

\* str(e): the message of an RFDecodeError, the text of any other exception
str(e) ==
    IF e.kind = "error" THEN e.message ELSE e.error

\* the 'started' notification
started_message(request_id) ==
    [request_id |-> request_id, event |-> "started", capture_type |-> "on",
     message |-> "Capturing ON button for 2.0 seconds..."]

\* the 'captured' message
captured_message(request_id, result) ==
    [request_id |-> request_id, event |-> "captured", capture_type |-> "on",
     code |-> result.code, pulselength |-> result.pulselength,
     protocol |-> result.protocol, times_seen |-> result.times_seen,
     segments_found |-> result.segments_found]

\* the 'timeout' message
timeout_message(request_id) ==
    [request_id |-> request_id, event |-> "timeout", capture_type |-> "on",
     error |-> "No valid code captured. Make sure you are holding the button before clicking Start."]

\* the message of the except clause, for any exception e
error_message(request_id, e) ==
    [request_id |-> request_id, event |-> "error", capture_type |-> "on",
     error |-> str(e)]

\* the answer to a 'start' while sniffer_active
already_running_message(request_id) ==
    [request_id |-> request_id, event |-> "error",
     error |-> "Sniffer is already running"]

\* the answers to a 'stop'
stopped_message(request_id) ==
    [request_id |-> request_id, event |-> "stopped",
     message |-> "Sniffer stopped by user"]

info_message(request_id) ==
    [request_id |-> request_id, event |-> "info",
     message |-> "Sniffer was not running"]

\* a 'start' is refused whatever the flag says
start_refused_never(active) ==
    FALSE

\* if sniffer_active: the 'start' is refused
start_refused(active) ==
    active

\* what a session's window can capture: a held button (a result), nothing
\* (NO_SIGNAL), three different codes (AMBIGUOUS_SIGNAL)
ServiceTx ==
    {burst(3, 0, FALSE),
     <<>>,
     burst(1, 1, FALSE) \o <<CleanFrame(CodeList[3]), Gap>>}

\* handle_command is given a 'start': it answers 'already running' if
\* sniffer_active, and goes on to start a thread if not
handle_command_start ==
    /\ handler.pc = "listening"
    /\ requests < MaxCommands
    /\ requests' = requests + 1
    /\ IF start_refused(sniffer_active)
       THEN /\ published' = Append(published, already_running_message(requests'))
            /\ handler' = [pc |-> "listening", request_id |-> requests',
                           action |-> "start", busy |-> sniffer_active]
       ELSE /\ handler' = [pc |-> "starting", request_id |-> requests',
                           action |-> "start", busy |-> sniffer_active]
            /\ UNCHANGED published
    /\ UNCHANGED <<sniffer_active, stop_sniffer, status, threads>>
    /\ UNCHANGED <<decoder_vars, config_vars, module_vars>>

\* the rest of the 'start' branch: the flag is set, the stop event cleared
\* and the thread started
handle_command_start_thread ==
    /\ handler.pc = "starting"
    /\ sniffer_active' = TRUE
    /\ stop_sniffer' = FALSE
    /\ threads' = [threads EXCEPT ![handler.request_id] =
                      [pc |-> "born", outcome |-> NoOutcome, pin_claimed |-> FALSE]]
    /\ handler' = [handler EXCEPT !.pc = "listening"]
    /\ UNCHANGED <<status, published, requests>>
    /\ UNCHANGED <<decoder_vars, config_vars, module_vars>>

\* a 'stop' that also ends the capture of the running session
handle_command_stop_aborting ==
    /\ handler.pc = "listening"
    /\ requests < MaxCommands
    /\ requests' = requests + 1
    /\ handler' = [pc |-> "listening", request_id |-> requests',
                   action |-> "stop", busy |-> sniffer_active]
    /\ IF sniffer_active
       THEN /\ stop_sniffer' = TRUE
            /\ published' = Append(published, stopped_message(requests'))
       ELSE /\ published' = Append(published, info_message(requests'))
            /\ UNCHANGED stop_sniffer
    /\ threads' = [t \in RequestIds |->
                      IF threads[t].pc = "capturing"
                      THEN [threads[t] EXCEPT !.pc = "leaving"]
                      ELSE threads[t]]
    /\ UNCHANGED <<sniffer_active, status>>
    /\ UNCHANGED <<decoder_vars, config_vars, module_vars>>

\* handle_command is given a 'stop'
handle_command_stop ==
    /\ handler.pc = "listening"
    /\ requests < MaxCommands
    /\ requests' = requests + 1
    /\ handler' = [pc |-> "listening", request_id |-> requests',
                   action |-> "stop", busy |-> sniffer_active]
    /\ IF sniffer_active
       THEN /\ stop_sniffer' = TRUE
            /\ published' = Append(published, stopped_message(requests'))
       ELSE /\ published' = Append(published, info_message(requests'))
            /\ UNCHANGED stop_sniffer
    /\ UNCHANGED <<sniffer_active, status, threads>>
    /\ UNCHANGED <<decoder_vars, config_vars, module_vars>>

\* run_sniffer of request t gets the pin from the settings and writes the
\* status key
run_sniffer_sets_status(t) ==
    /\ threads[t].pc = "born"
    /\ load_config_returns
    /\ status' = [active |-> TRUE, request_id |-> t, capture_type |-> "on"]
    /\ threads' = [threads EXCEPT ![t].pc = "announcing"]
    /\ UNCHANGED <<sniffer_active, stop_sniffer, published, requests, handler>>
    /\ UNCHANGED <<decoder_vars, config_vars, module_vars>>

\* it publishes 'started' and enters the try block: a decoder is made and
\* capture_single_window called
run_sniffer_publishes_started(t) ==
    /\ threads[t].pc = "announcing"
    /\ published' = Append(published, started_message(t))
    /\ threads' = [threads EXCEPT ![t].pc = "capturing"]
    /\ UNCHANGED <<sniffer_active, stop_sniffer, status, requests, handler>>
    /\ UNCHANGED <<decoder_vars, config_vars, module_vars>>

\* its capture_single_window ends, with a result or an RFDecodeError, the
\* pin set up and not cleaned up
run_sniffer_window_closes(t, tx) ==
    /\ threads[t].pc = "capturing"
    /\ RF_AVAILABLE /\ USE_CUSTOM_DECODER
    /\ threads' = [threads EXCEPT ![t] =
                      [pc |-> "captured",
                       outcome |-> analyze(timings_of(tx), default_min_confidence,
                                           default_min_segments),
                       pin_claimed |-> TRUE]]
    /\ UNCHANGED <<sniffer_active, stop_sniffer, status, published, requests, handler>>
    /\ UNCHANGED <<decoder_vars, config_vars, module_vars>>

\* GPIO.input raises inside its capture_single_window
run_sniffer_window_fails(t) ==
    /\ threads[t].pc = "capturing"
    /\ RF_AVAILABLE /\ USE_CUSTOM_DECODER
    /\ threads' = [threads EXCEPT ![t] =
                      [pc |-> "captured", outcome |-> UnexpectedError,
                       pin_claimed |-> TRUE]]
    /\ UNCHANGED <<sniffer_active, stop_sniffer, status, published, requests, handler>>
    /\ UNCHANGED <<decoder_vars, config_vars, module_vars>>

\* the rest of the try block and the except clause: 'captured' (or
\* 'timeout') and decoder.cleanup() for a result, 'error' with str(e) for
\* any exception
run_sniffer_publishes_outcome(t) ==
    /\ threads[t].pc = "captured"
    /\ LET o == threads[t].outcome
       IN  IF o.kind = "success"
           THEN /\ published' = Append(published,
                                    IF o.code > noise_floor
                                    THEN captured_message(t, o)
                                    ELSE timeout_message(t))
                /\ threads' = [threads EXCEPT ![t].pc = "leaving",
                                              ![t].pin_claimed = FALSE]
           ELSE /\ published' = Append(published, error_message(t, o))
                /\ threads' = [threads EXCEPT ![t].pc = "leaving"]
    /\ UNCHANGED <<sniffer_active, stop_sniffer, status, requests, handler>>
    /\ UNCHANGED <<decoder_vars, config_vars, module_vars>>

\* finally: sniffer_active = False
run_sniffer_resets_flag(t) ==
    /\ threads[t].pc = "leaving"
    /\ sniffer_active' = FALSE
    /\ threads' = [threads EXCEPT ![t].pc = "clearing_status"]
    /\ UNCHANGED <<stop_sniffer, status, published, requests, handler>>
    /\ UNCHANGED <<decoder_vars, config_vars, module_vars>>

\* finally: the status key is set to inactive
run_sniffer_clears_status(t) ==
    /\ threads[t].pc = "clearing_status"
    /\ status' = [active |-> FALSE]
    /\ threads' = [threads EXCEPT ![t].pc = "clearing_stop"]
    /\ UNCHANGED <<sniffer_active, stop_sniffer, published, requests, handler>>
    /\ UNCHANGED <<decoder_vars, config_vars, module_vars>>

\* finally: stop_sniffer.clear()
run_sniffer_clears_stop(t) ==
    /\ threads[t].pc = "clearing_stop"
    /\ stop_sniffer' = FALSE
    /\ threads' = [threads EXCEPT ![t].pc = "done"]
    /\ UNCHANGED <<sniffer_active, status, published, requests, handler>>
    /\ UNCHANGED <<decoder_vars, config_vars, module_vars>>

\* get_sniffer_gpio, the first statement of run_sniffer, reads the settings:
\* load_config on a missing file never returns, and holds the lock
run_sniffer_get_gpio_blocks(t) ==
    /\ threads[t].pc = "born"
    /\ config_file = "missing"
    /\ lock = "free"
    /\ lock' = "load_config"
    /\ threads' = [threads EXCEPT ![t].pc = "blocked"]
    /\ UNCHANGED <<RF_AVAILABLE, USE_CUSTOM_DECODER, config_file, loading, raised>>
    /\ UNCHANGED <<sniffer_active, stop_sniffer, status, published, requests, handler>>
    /\ UNCHANGED <<decoder_vars, config_vars>>

\* load_config raises JSONDecodeError, before the try block of run_sniffer:
\* the thread ends
run_sniffer_get_gpio_raises(t) ==
    /\ threads[t].pc = "born"
    /\ config_file = "invalid"
    /\ lock = "free"
    /\ threads' = [threads EXCEPT ![t].pc = "died"]
    /\ UNCHANGED <<sniffer_active, stop_sniffer, status, published, requests, handler>>
    /\ UNCHANGED <<decoder_vars, config_vars, module_vars>>

\* the name timeout, which run_sniffer reads and nothing defines
NameError ==
    [kind |-> "exception", error |-> "name 'timeout' is not defined"]

\* the rpi_rf branch: the loop is left at once when stop_sniffer is set,
\* with nothing published; otherwise its first pass raises NameError
run_sniffer_rpi_rf(t) ==
    /\ threads[t].pc = "capturing"
    /\ RF_AVAILABLE /\ ~USE_CUSTOM_DECODER
    /\ threads' = IF stop_sniffer
                  THEN [threads EXCEPT ![t].pc = "leaving"]
                  ELSE [threads EXCEPT ![t].pc = "captured", ![t].outcome = NameError]
    /\ UNCHANGED <<sniffer_active, stop_sniffer, status, published, requests, handler>>
    /\ UNCHANGED <<decoder_vars, config_vars, module_vars>>

\* the 'captured' message of the mock branch
mock_message(request_id) ==
    [request_id |-> request_id, event |-> "captured", capture_type |-> "on",
     code |-> 1234567, pulselength |-> 189, protocol |-> 1, mock |-> TRUE]

\* the mock branch: the loop finds stop_sniffer set and is left, with
\* nothing published
run_sniffer_mock_stopped(t) ==
    /\ threads[t].pc = "capturing"
    /\ ~RF_AVAILABLE
    /\ stop_sniffer
    /\ threads' = [threads EXCEPT ![t].pc = "leaving"]
    /\ UNCHANGED <<sniffer_active, stop_sniffer, status, published, requests, handler>>
    /\ UNCHANGED <<decoder_vars, config_vars, module_vars>>

\* the mock branch: five seconds have passed without a stop, the mock code
\* is published
run_sniffer_mock_captures(t) ==
    /\ threads[t].pc = "capturing"
    /\ ~RF_AVAILABLE
    /\ ~stop_sniffer
    /\ published' = Append(published, mock_message(t))
    /\ threads' = [threads EXCEPT ![t].pc = "leaving"]
    /\ UNCHANGED <<sniffer_active, stop_sniffer, status, requests, handler>>
    /\ UNCHANGED <<decoder_vars, config_vars, module_vars>>

NextService ==
    \/ handle_command_start
    \/ handle_command_start_thread
    \/ handle_command_stop
    \/ \E t \in RequestIds : run_sniffer_sets_status(t)
    \/ \E t \in RequestIds : run_sniffer_publishes_started(t)
    \/ \E t \in RequestIds, tx \in ServiceTx : run_sniffer_window_closes(t, tx)
    \/ \E t \in RequestIds : run_sniffer_window_fails(t)
    \/ \E t \in RequestIds : run_sniffer_publishes_outcome(t)
    \/ \E t \in RequestIds : run_sniffer_resets_flag(t)
    \/ \E t \in RequestIds : run_sniffer_clears_status(t)
    \/ \E t \in RequestIds : run_sniffer_clears_stop(t)

SpecService ==
    Init /\ [][NextService]_vars

\* the most commands given to the service in any of its decoder modes
MaxSessionCommands == 2

\* what a session's window can capture: a held button, nothing
SessionTx ==
    {burst(3, 0, FALSE), <<>>}

\* the decoder the service has found at import (custom, rpi_rf, none), and
\* the configuration file there or not
InitSessions ==
    /\ InitProgram
    /\ \E found \in {<<TRUE, TRUE>>, <<TRUE, FALSE>>, <<FALSE, FALSE>>} :
          /\ RF_AVAILABLE = found[1]
          /\ USE_CUSTOM_DECODER = found[2]
    /\ config_file \in {"present", "missing", "invalid"}

\* one step of the run_sniffer thread of request t
run_sniffer_step(t) ==
    \/ run_sniffer_get_gpio_blocks(t)
    \/ run_sniffer_get_gpio_raises(t)
    \/ run_sniffer_sets_status(t)
    \/ run_sniffer_publishes_started(t)
    \/ \E tx \in SessionTx : run_sniffer_window_closes(t, tx)
    \/ run_sniffer_window_fails(t)
    \/ run_sniffer_rpi_rf(t)
    \/ run_sniffer_mock_stopped(t)
    \/ run_sniffer_mock_captures(t)
    \/ run_sniffer_publishes_outcome(t)
    \/ run_sniffer_resets_flag(t)
    \/ run_sniffer_clears_status(t)
    \/ run_sniffer_clears_stop(t)

NextSessions ==
    \/ requests < MaxSessionCommands /\ handle_command_start
    \/ handle_command_start_thread
    \/ requests < MaxSessionCommands /\ handle_command_stop
    \/ \E t \in RequestIds : run_sniffer_step(t)

\* every started thread is scheduled, and handle_command goes on with the
\* command it handles; no command has to arrive
SpecSessions ==
    /\ InitSessions
    /\ [][NextSessions]_vars
    /\ WF_vars(handle_command_start_thread)
    /\ \A t \in RequestIds : WF_vars(run_sniffer_step(t))

\* the calls of Next, capturing synthetic trains
NextRoundTrip ==
    \/ \E mc \in MinConfidences, ms \in MinSegments : capture_single_window(mc, ms)
    \/ run_sniffer_capture
    \/ \E tx \in RoundTripTx : capture_window_closes(tx)
    \/ capture_raw_timings_fails
    \/ run_sniffer_finishes
    \/ cleanup

SpecRoundTrip ==
    Init /\ [][NextRoundTrip]_vars

\* the calls of Next, capturing shifted frames
NextTolerance ==
    \/ \E mc \in MinConfidences, ms \in MinSegments : capture_single_window(mc, ms)
    \/ run_sniffer_capture
    \/ \E tx \in ToleranceTx : capture_window_closes(tx)
    \/ capture_raw_timings_fails
    \/ run_sniffer_finishes
    \/ cleanup

SpecTolerance ==
    Init /\ [][NextTolerance]_vars

\* ------------------------------------------------------------------------
\* What a finished capture is measured against: counts taken from the
\* buffer itself, segment by segment, not from the loops of the decoder
\* ------------------------------------------------------------------------

\* the call has run its gates on a captured buffer
Analysed ==
    outcome.kind \in {"success", "error"}

ErrorKinds ==
    {"NO_SIGNAL", "NO_SYNC_GAPS", "INSUFFICIENT_SEGMENTS", "DECODE_FAILED",
     "AMBIGUOUS_SIGNAL", "WEAK_SIGNAL"}

\* the error kind of an outcome, "none" for a success
ErrorTypeOf(o) ==
    IF o.kind = "error" THEN o.error_type ELSE "none"

\* the decode of every segment
DecodeEach(segs) ==
    [i \in 1..Len(segs) |-> decode_segment(segs[i])]

\* the segments that decoded
DecodedAt(dec) ==
    {i \in DOMAIN dec : ~dec[i].none}

\* how many segments decoded to code c
CountOf(dec, c) ==
    Cardinality({i \in DecodedAt(dec) : dec[i].code = c})

\* the largest number of segments that decoded to one code
BestCount(dec) ==
    IF DecodedAt(dec) = {} THEN 0
    ELSE CHOOSE n \in {CountOf(dec, dec[i].code) : i \in DecodedAt(dec)} :
             \A j \in DecodedAt(dec) : CountOf(dec, dec[j].code) <= n

SyncGaps(tm) ==
    Cardinality({i \in 1..Len(tm) : tm[i][1] > sync_gap_threshold})

\* the error kind of the lowest-numbered gate whose condition fails on the
\* buffer tm, "none" when all six hold
FirstFailingGate(tm, mc, ms) ==
    LET segs == find_code_segments(tm)
        dec == DecodeEach(segs)
        total == Cardinality(DecodedAt(dec))
        best == BestCount(dec)
    IN  IF Len(tm) < min_pulses THEN "NO_SIGNAL"
        ELSE IF SyncGaps(tm) < ms THEN "NO_SYNC_GAPS"
        ELSE IF Len(segs) < ms THEN "INSUFFICIENT_SEGMENTS"
        ELSE IF total = 0 THEN "DECODE_FAILED"
        ELSE IF best * 10 < mc * total THEN "AMBIGUOUS_SIGNAL"
        ELSE IF best < ms THEN "WEAK_SIGNAL"
        ELSE "none"

\* ------------------------------------------------------------------------
\* Claims
\* ------------------------------------------------------------------------

\* C1: the error capture_single_window raises is the one of the
\* lowest-numbered failing gate, in the order NO_SIGNAL, NO_SYNC_GAPS,
\* INSUFFICIENT_SEGMENTS, DECODE_FAILED, AMBIGUOUS_SIGNAL, WEAK_SIGNAL, and
\* it returns a result only when no gate fails
C1_FirstFailingGateReported ==
    Analysed =>
        ErrorTypeOf(outcome) = FirstFailingGate(timings, min_confidence, min_segments)

\* C1 witness: AMBIGUOUS_SIGNAL (gate 5) is reported for a capture whose
\* primary count also fails gate 6
C1_Witness ==
    /\ Analysed
    /\ ErrorTypeOf(outcome) = "AMBIGUOUS_SIGNAL"
    /\ BestCount(DecodeEach(find_code_segments(timings))) < min_segments

\* the counts and the suggestion an error of each kind carries, against the
\* buffer it was raised for
HasEvidence(o, tm, ms) ==
    LET d == o.details
        segs == find_code_segments(tm)
        dec == DecodeEach(segs)
    IN  /\ "suggestion" \in DOMAIN d
        /\ CASE o.error_type = "NO_SIGNAL" ->
                  /\ {"transitions", "expected_min"} \subseteq DOMAIN d
                  /\ d.transitions = Len(tm)
             [] o.error_type = "NO_SYNC_GAPS" ->
                  /\ {"transitions", "sync_gaps_found", "sync_gaps_needed"} \subseteq DOMAIN d
                  /\ d.transitions = Len(tm)
                  /\ d.sync_gaps_found = SyncGaps(tm)
                  /\ d.sync_gaps_needed = ms
             [] o.error_type = "INSUFFICIENT_SEGMENTS" ->
                  /\ {"transitions", "sync_gaps", "segments_found", "segments_needed"}
                         \subseteq DOMAIN d
                  /\ d.sync_gaps = SyncGaps(tm)
                  /\ d.segments_found = Len(segs)
                  /\ d.segments_needed = ms
             [] o.error_type = "DECODE_FAILED" ->
                  /\ {"transitions", "sync_gaps", "segments_found", "decode_failures"}
                         \subseteq DOMAIN d
                  /\ d.segments_found = Len(segs)
                  /\ d.decode_failures = Len(segs)
             [] o.error_type = "AMBIGUOUS_SIGNAL" ->
                  /\ {"transitions", "segments_found", "codes_decoded", "unique_codes",
                      "competing_codes"} \subseteq DOMAIN d
                  /\ d.segments_found = Len(segs)
                  /\ d.codes_decoded = Cardinality(DecodedAt(dec))
                  /\ d.unique_codes = Cardinality({dec[i].code : i \in DecodedAt(dec)})
             [] o.error_type = "WEAK_SIGNAL" ->
                  /\ {"code", "times_seen", "times_needed"} \subseteq DOMAIN d
                  /\ d.times_seen = CountOf(dec, d.code)
                  /\ d.times_needed = ms
             [] OTHER -> FALSE

\* C2: a call that has captured a buffer ends either with a success record
\* whose code is > 1000 or with an RFDecodeError of one of the six kinds
\* whose details carry the observed counts and a suggestion, never with a
\* bare None
C2_NeverBareNone ==
    (pc \in {"returned", "raised"} /\ outcome.kind # "exception") =>
        \/ outcome.kind = "success" /\ outcome.code > noise_floor
        \/ /\ outcome.kind = "error"
           /\ outcome.error_type \in ErrorKinds
           /\ HasEvidence(outcome, timings, min_segments)

\* C2 witness: an INSUFFICIENT_SEGMENTS error that reports 2 segments found
\* of 3 needed
C2_Witness ==
    /\ pc = "raised"
    /\ ErrorTypeOf(outcome) = "INSUFFICIENT_SEGMENTS"
    /\ outcome.details.segments_found = 2
    /\ outcome.details.segments_needed = 3

\* C3: whenever capture_single_window returns a result, all six gate
\* conditions hold, min_segments <= times_seen <= total_decoded <=
\* segments_found, and the code returned is a most frequent one
C3_SuccessOnlyPastAllGates ==
    outcome.kind = "success" =>
        LET segs == find_code_segments(timings)
            dec == DecodeEach(segs)
            total == Cardinality(DecodedAt(dec))
        IN  /\ Len(timings) >= min_pulses
            /\ SyncGaps(timings) >= min_segments
            /\ outcome.segments_found = Len(segs)
            /\ outcome.segments_found >= min_segments
            /\ outcome.times_seen >= min_segments
            /\ outcome.times_seen * 10 >= min_confidence * total
            /\ outcome.times_seen <= total
            /\ total <= outcome.segments_found
            /\ outcome.times_seen = CountOf(dec, outcome.code)
            /\ outcome.times_seen = BestCount(dec)

\* C3 witness: a success whose primary code was seen fewer times than
\* segments decoded, and fewer segments decoded than were found
C3_Witness ==
    /\ outcome.kind = "success"
    /\ outcome.times_seen
         < Cardinality(DecodedAt(DecodeEach(find_code_segments(timings))))
    /\ Cardinality(DecodedAt(DecodeEach(find_code_segments(timings))))
         < outcome.segments_found

IsFrame(item) ==
    item.kind = "frame"

\* a frame as the remote sends it: no pulse shifted, a code in (1000, 2^24),
\* short and long inside their bands
IsValidFrame(item) ==
    /\ item.kind = "frame"
    /\ item.ds = 0 /\ item.dl = 0
    /\ 1000 < item.code /\ item.code < 2 ^ 24
    /\ 150 < item.short /\ item.short < 450
    /\ 450 < item.long /\ item.long < 1200

\* tx is N valid frames and N sync gaps in turn, starting with either
IsFramesAndGaps(tx) ==
    /\ Len(tx) >= 2 /\ Len(tx) % 2 = 0
    /\ \/ \A i \in 1..Len(tx) : IF i % 2 = 1 THEN IsValidFrame(tx[i]) ELSE tx[i] = Gap
       \/ \A i \in 1..Len(tx) : IF i % 2 = 0 THEN IsValidFrame(tx[i]) ELSE tx[i] = Gap

\* tx is one valid frame at about 1:3, at least three times, a sync gap
\* after each
IsCleanTrain(tx) ==
    /\ Len(tx) >= 6
    /\ IsFramesAndGaps(tx)
    /\ IsValidFrame(tx[1])
    /\ 5 * tx[1].short <= 2 * tx[1].long /\ 2 * tx[1].long <= 7 * tx[1].short
    /\ \A i \in 1..Len(tx) : i % 2 = 1 => tx[i] = tx[1]

\* C4: round trip: when the capture is a noise-free train of one 24-bit
\* code in (1000, 2^24), MSB first, short and long inside their bands at
\* about 1:3, at least three frames with a sync gap after each, then
\* find_code_segments finds one segment per frame and decode_segment
\* returns exactly that code for every one of them
C4_RoundTrip ==
    (Analysed /\ IsCleanTrain(sent)) =>
        LET segs == find_code_segments(timings)
        IN  /\ 2 * Len(segs) = Len(sent)
            /\ \A i \in 1..Len(segs) :
                  LET d == decode_segment(segs[i])
                  IN  ~d.none /\ d.code = sent[1].code

\* C4 witness: a train of the smallest code, 1001, at the widest pulses has
\* been captured and recovered
C4_Witness ==
    /\ Analysed
    /\ IsCleanTrain(sent)
    /\ sent[1].code = 1001
    /\ sent[1].short = 399
    /\ outcome.kind = "success"
    /\ outcome.code = 1001

\* the buffer of the confidence example: six frames of A, then four of B
SixAFourB ==
    timings_of(burst(6, 4, FALSE))

C6_WeakSignal ==
    Analysed =>
        LET segs == find_code_segments(timings)
            dec == DecodeEach(segs)
            total == Cardinality(DecodedAt(dec))
            best == BestCount(dec)
        IN  (/\ Len(timings) >= min_pulses
             /\ SyncGaps(timings) >= min_segments
             /\ Len(segs) >= min_segments
             /\ total > 0
             /\ best * 10 >= min_confidence * total
             /\ best < min_segments) =>
                /\ outcome.kind = "error"
                /\ outcome.error_type = "WEAK_SIGNAL"
                /\ outcome.details.times_seen = best
                /\ outcome.details.times_needed = min_segments

\* C6 witness: min_segments = 3, three segments found, the primary code
\* decoded exactly twice and nothing else decoded (confidence 100%), and
\* WEAK_SIGNAL was raised
C6_Witness ==
    /\ min_segments = 3
    /\ ErrorTypeOf(outcome) = "WEAK_SIGNAL"
    /\ Len(find_code_segments(timings)) >= 3
    /\ Cardinality(DecodedAt(DecodeEach(find_code_segments(timings)))) = 2
    /\ outcome.details.times_seen = 2
    /\ outcome.details.confidence = 100

\* C7: a capture of fewer than 40 pulse events raises NO_SIGNAL with
\* transitions the number of events and expected_min 40, whatever the
\* durations and the parameters; one of exactly 40 events does not
C7_NoSignal ==
    Analysed =>
        /\ Len(timings) < min_pulses =>
              /\ outcome.kind = "error"
              /\ outcome.error_type = "NO_SIGNAL"
              /\ outcome.details.transitions = Len(timings)
              /\ outcome.details.expected_min = 40
        /\ Len(timings) = min_pulses => ErrorTypeOf(outcome) # "NO_SIGNAL"

\* C7 witness: NO_SIGNAL raised for a buffer of fewer than 40 events that
\* holds sync gaps, at a min_segments other than the default
C7_Witness ==
    /\ ErrorTypeOf(outcome) = "NO_SIGNAL"
    /\ 0 < Len(timings) /\ Len(timings) < min_pulses
    /\ SyncGaps(timings) >= 2
    /\ min_segments = 2

\* C8: segmentation: when the capture is N valid 24-bit frames and N sync
\* gaps in turn, find_code_segments yields exactly the N frames' pulses, in
\* frame order, and decode_segment returns for each what it returns for
\* that frame alone: the frame's code
C8_Segmentation ==
    (Analysed /\ IsFramesAndGaps(sent)) =>
        LET frames == SelectSeq(sent, IsFrame)
            segs == find_code_segments(timings)
        IN  /\ Len(segs) = Len(frames)
            /\ \A i \in 1..Len(segs) :
                  /\ segs[i] = encode_frame(frames[i])
                  /\ ~decode_segment(segs[i]).none
                  /\ decode_segment(segs[i]).code = frames[i].code

\* C8 witness: two frames of A and three of B, each with its sync gap
\* before it, have been cut into five segments
C8_Witness ==
    /\ Analysed
    /\ sent = burst(2, 3, TRUE)
    /\ Len(find_code_segments(timings)) = 5

\* abs(t - mean) < 0.4 * mean, the mean being sum / n
WithinTolerance(t, sum, n) ==
    10 * Abs(t * n - sum) < 4 * sum

\* the sum and the number of the pulses of p inside each band
BandStats(p) ==
    LET InShort(d) == 150 < d /\ d < 450
        InLong(d) == 450 < d /\ d < 1200
    IN  [ssum |-> SumSeq(SelectSeq(p, InShort)), sn |-> Len(SelectSeq(p, InShort)),
         lsum |-> SumSeq(SelectSeq(p, InLong)), ln |-> Len(SelectSeq(p, InLong))]

\* every pulse of the shifted frame f is still inside its own band, within
\* tolerance of the mean of its band as the shifted frame has it, and not
\* within tolerance of the other band's mean
StaysInTolerance(f) ==
    LET p == encode_frame(f)
        b == BandStats(p)
        bits == code_bits(f.code, 24)
        IsShortAt(i) == (bits[(i + 1) \div 2] = 0) = (i % 2 = 1)
    IN  \A i \in 1..Len(p) :
            IF IsShortAt(i)
            THEN /\ 150 < p[i] /\ p[i] < 450
                 /\ WithinTolerance(p[i], b.ssum, b.sn)
                 /\ ~WithinTolerance(p[i], b.lsum, b.ln)
            ELSE /\ 450 < p[i] /\ p[i] < 1200
                 /\ WithinTolerance(p[i], b.lsum, b.ln)
                 /\ ~WithinTolerance(p[i], b.ssum, b.sn)

\* a band of the shifted frame f keeps fewer than 10 pulses, or every pulse
\* is tolerance * mean or more away from both means as the shifted frame
\* has them
LeavesTolerance(f) ==
    LET p == encode_frame(f)
        b == BandStats(p)
    IN  \/ b.sn < 10
        \/ b.ln < 10
        \/ \A i \in 1..Len(p) :
              /\ ~WithinTolerance(p[i], b.ssum, b.sn)
              /\ ~WithinTolerance(p[i], b.lsum, b.ln)

\* tx is one frame, its pulses shifted, three times with a sync gap after
\* each
IsShiftedTrain(tx) ==
    /\ Len(tx) = 6
    /\ tx[1].kind = "frame"
    /\ 1000 < tx[1].code /\ tx[1].code < 2 ^ 24
    /\ \A i \in 1..Len(tx) : IF i % 2 = 1 THEN tx[i] = tx[1] ELSE tx[i] = Gap

\* C9: tolerance is measured against the band means of the shifted
\* segment itself: a shifted frame whose pulses all stay in their bands,
\* within 0.4 x their band's new mean and not within 0.4 x the other's,
\* decodes to the original code; one that leaves a band fewer than 10
\* pulses, or whose every pulse is 0.4 x mean or more away from both new
\* means, makes decode_segment return None, and the call raises
\* DECODE_FAILED when it asked for no more segments than there are
C9_ToleranceAroundSegmentMeans ==
    (Analysed /\ IsShiftedTrain(sent)) =>
        LET segs == find_code_segments(timings)
            f == sent[1]
        IN  /\ StaysInTolerance(f) =>
                  /\ Len(segs) = 3
                  /\ \A i \in 1..Len(segs) :
                        /\ ~decode_segment(segs[i]).none
                        /\ decode_segment(segs[i]).code = f.code
            /\ LeavesTolerance(f) =>
                  /\ \A i \in 1..Len(segs) : decode_segment(segs[i]).none
                  /\ outcome.kind = "error"
                  /\ Len(segs) >= min_segments => outcome.error_type = "DECODE_FAILED"

\* C9 witness: every pulse of a frame moved up by 0.4 x band mean + 1, and
\* the frame still decoded to its code
C9_Witness ==
    /\ Analysed
    /\ IsShiftedTrain(sent)
    /\ sent[1].dir = "up"
    /\ sent[1].ds = tolerance_of(sent[1].short) + 1
    /\ sent[1].dl = tolerance_of(sent[1].long) + 1
    /\ StaysInTolerance(sent[1])
    /\ outcome.kind = "success"
    /\ outcome.code = sent[1].code

\* C9 as stated: a shift of every pulse by just under 0.4 x the clean band
\* mean still decodes to the code, and one by just over makes
\* decode_segment return None
C9_ShiftAroundCleanMeans ==
    (Analysed /\ IsShiftedTrain(sent)) =>
        LET f == sent[1]
            d == decode_segment(encode_frame(f))
        IN  /\ (f.ds = tolerance_of(f.short) - 1 /\ f.dl = tolerance_of(f.long) - 1) =>
                  (~d.none /\ d.code = f.code)
            /\ (f.ds = tolerance_of(f.short) + 1 /\ f.dl = tolerance_of(f.long) + 1) =>
                  d.none

\* a shift of just under 0.4 x band mean, after which the frame does not
\* decode: a band has lost its pulses
C9_UnderShiftFails ==
    /\ Analysed
    /\ IsShiftedTrain(sent)
    /\ sent[1].ds = tolerance_of(sent[1].short) - 1
    /\ LeavesTolerance(sent[1])
    /\ ErrorTypeOf(outcome) = "DECODE_FAILED"

\* C10: the receive pin is released on every exit path: once a call of
\* capture_single_window has ended, by a result, a gate failure or an
\* unexpected exception, _setup_done is False, and once run_sniffer has
\* finished its session the pin is no longer claimed
C10_PinReleasedOnEveryExit ==
    /\ pc \in {"returned", "raised"} => ~setup_done
    /\ (caller = "sniffer" /\ pc = "idle") => ~pin_claimed

C15_DecodeSuccessRateIsPercentage ==
    (Analysed /\ outcome.kind = "success") =>
        LET segs == find_code_segments(timings)
            total == Cardinality(DecodedAt(DecodeEach(segs)))
            d == outcome.decode_success_rate * Len(segs) - 1000 * total
        IN  /\ 2 * Abs(d) <= Len(segs)
            /\ 2 * Abs(d) = Len(segs) => outcome.decode_success_rate % 2 = 0

\* C15 witness: a result for a capture in which two of three segments
\* decoded: 66.7
C15_Witness ==
    /\ outcome.kind = "success"
    /\ Len(find_code_segments(timings)) = 3
    /\ Cardinality(DecodedAt(DecodeEach(find_code_segments(timings)))) = 2
    /\ outcome.decode_success_rate = 667

\* C15 as stated: the field equals the ratio total_decoded / segments_found
\* (the field, held in tenths, divided by 10)
C15_DecodeSuccessRateIsRatio ==
    (Analysed /\ outcome.kind = "success") =>
        LET segs == find_code_segments(timings)
            total == Cardinality(DecodedAt(DecodeEach(segs)))
        IN  outcome.decode_success_rate * Len(segs) = 10 * total

\* C16: min_confidence bounds the ratio of the primary code's count to the
\* number of segments found: a result is returned only if
\* primary_count / segments_found >= min_confidence
C16_ConfidenceOverSegmentsFound ==
    (Analysed /\ outcome.kind = "success") =>
        BestCount(DecodeEach(find_code_segments(timings))) * 10
            >= min_confidence * Len(find_code_segments(timings))

\* C17: receive(timeout) ends with the result of the first window that
\* decodes, or with None when no window did before the timeout; a window
\* that fails a gate never ends the call with an exception
C17_ReceiveTriesAgain ==
    (caller = "receive" /\ pc \in {"returned", "raised"} /\ outcome.kind # "exception") =>
        /\ pc = "returned"
        /\ outcome.kind \in {"success", "nothing"}

\* ------------------------------------------------------------------------
\* Claims on the sniffer service
\* ------------------------------------------------------------------------

\* the thread of request t is inside the try block of run_sniffer: its
\* decoder samples the pin or still holds it
InCapture(t) ==
    threads[t].pc \in {"capturing", "captured"}

\* the message m is among the published ones
IsPublished(m) ==
    \E i \in 1..Len(published) : published[i] = m

\* C11: under every interleaving of handle_command and the run_sniffer
\* threads, at most one thread is inside its capture at any time, and a
\* 'start' received while sniffer_active is true starts no thread and is
\* answered with the error event 'Sniffer is already running'
C11_OneSessionAtATime ==
    /\ Cardinality({t \in RequestIds : InCapture(t)}) <= 1
    /\ \A t \in RequestIds : InCapture(t) => sniffer_active
    /\ (handler.action = "start" /\ handler.busy) =>
          /\ handler.pc = "listening"
          /\ threads[handler.request_id].pc = "none"
          /\ IsPublished([request_id |-> handler.request_id, event |-> "error",
                          error |-> "Sniffer is already running"])

\* C11 witness: a second 'start' has been refused while the first
\* request's thread is capturing
C11_Witness ==
    /\ handler.action = "start"
    /\ handler.busy
    /\ handler.request_id = 2
    /\ threads[1].pc = "capturing"
    /\ IsPublished(already_running_message(2))

\* the thread of request t has published the message that ends its session
HasReported(t) ==
    threads[t].pc \in {"leaving", "clearing_status", "clearing_stop", "done"}

\* that message: the one with its request_id that is not 'started'
TerminalMessage(t) ==
    published[CHOOSE i \in 1..Len(published) :
                  published[i].request_id = t /\ published[i].event # "started"]

\* C12: what is reported for an unexpected lower-level failure (the pin
\* raising while it is read) differs in kind from what is reported for a
\* failure of one of the six gates, and is never reported as NO_SIGNAL
C12_InfrastructureErrorDistinct ==
    \A t \in RequestIds, u \in RequestIds :
        (/\ HasReported(t) /\ threads[t].outcome.kind = "exception"
         /\ HasReported(u) /\ threads[u].outcome.kind = "error") =>
            /\ TerminalMessage(t).event # TerminalMessage(u).event
            /\ "error_type" \in DOMAIN TerminalMessage(t) =>
                  TerminalMessage(t).error_type # "NO_SIGNAL"

\* C13: when a capture fails at one of the six gates, the message published
\* for the request names the gate in error_type and carries the
\* RFDecodeError's message and details
C13_ErrorPayloadPublished ==
    \A t \in RequestIds :
        (HasReported(t) /\ threads[t].outcome.kind = "error") =>
            LET m == TerminalMessage(t)
                e == threads[t].outcome
            IN  /\ {"error_type", "message", "details"} \subseteq DOMAIN m
                /\ m.error_type = e.error_type
                /\ m.message = e.message
                /\ m.details = e.details

\* the terminal events published with the request_id t
TerminalEvents(t) ==
    {i \in 1..Len(published) :
        /\ published[i].request_id = t
        /\ published[i].event \in {"captured", "timeout", "error"}}

\* the 'stop' commands answered with 'stopped'
StoppedAt ==
    {i \in 1..Len(published) : published[i].event = "stopped"}

\* C23: a capture window always runs to completion: a 'stop' that arrives
\* while a custom-decoder session is capturing does not abort or shorten the
\* window, and the session still publishes its own terminal event
\* (captured, timeout or error) with the request_id of its start
C23_WindowRunsToCompletion ==
    /\ [][(RF_AVAILABLE /\ USE_CUSTOM_DECODER /\ handle_command_stop)
              => threads' = threads]_vars
    /\ \A t \in RequestIds :
          (/\ RF_AVAILABLE /\ USE_CUSTOM_DECODER
           /\ threads[t].pc = "capturing" /\ stop_sniffer)
              ~> (TerminalEvents(t) # {})

\* C23 witness: a custom-decoder session has published 'started', a 'stop'
\* was answered with 'stopped' after that, and the session has published
\* 'captured' after the stop
C23_Witness ==
    /\ RF_AVAILABLE /\ USE_CUSTOM_DECODER
    /\ \E t \in RequestIds, i, j, k \in 1..Len(published) :
          /\ i < j /\ j < k
          /\ published[i] = started_message(t)
          /\ published[j].event = "stopped"
          /\ published[k].request_id = t
          /\ published[k].event = "captured"

\* C25: every accepted 'start' is followed by exactly one terminal event
\* (captured, timeout or error) with its request_id, in every decoder mode
\* and also when a 'stop' arrives during the session
C25_OneTerminalEventPerStart ==
    \A t \in RequestIds :
        /\ Cardinality(TerminalEvents(t)) <= 1
        /\ threads[t].pc = "done" => Cardinality(TerminalEvents(t)) = 1

\* C26: the busy flag is reset on every exit path of a session: after any
\* accepted 'start' sniffer_active eventually becomes False again
C26_FlagResetOnEveryExit ==
    \A t \in RequestIds : (threads[t].pc = "born") ~> ~sniffer_active

\* C27: under every interleaving, while a session is between its 'started'
\* event and its terminal event the key sniffer:status holds active = true
\* with that session's request_id: the finishing steps of an earlier
\* session never overwrite it
C27_StatusHeldDuringSession ==
    \A t \in RequestIds :
        (IsPublished(started_message(t)) /\ TerminalEvents(t) = {}) =>
            status = [active |-> TRUE, request_id |-> t, capture_type |-> "on"]

\* ------------------------------------------------------------------------
\* Claims on decode_segment
\* ------------------------------------------------------------------------

\* the value of the bits read most significant first
MsbValue(bits) ==
    SumSeq([j \in 1..Len(bits) |-> bits[j] * 2 ^ (Len(bits) - j)])

RECURSIVE WalkFrom(_, _, _)
\* the bits the walk over the pairs of seg reads from place i on: a pair
\* short, long is 0, a pair long, short is 1, both taking two places, and
\* any other pair takes one place; st holds the band sums and counts
WalkFrom(seg, i, st) ==
    IF i >= Len(seg) THEN <<>>
    ELSE LET s1 == WithinTolerance(seg[i], st.ssum, st.sn)
             l1 == WithinTolerance(seg[i], st.lsum, st.ln)
             s2 == WithinTolerance(seg[i + 1], st.ssum, st.sn)
             l2 == WithinTolerance(seg[i + 1], st.lsum, st.ln)
         IN  IF s1 /\ l2 THEN <<0>> \o WalkFrom(seg, i + 2, st)
             ELSE IF l1 /\ s2 THEN <<1>> \o WalkFrom(seg, i + 2, st)
             ELSE WalkFrom(seg, i + 1, st)

\* the bits decoded from seg, none when a band is empty
DecodedBits(seg) ==
    LET st == BandStats(seg)
    IN  IF st.sn = 0 \/ st.ln = 0 THEN <<>> ELSE WalkFrom(seg, 1, st)

\* C21: decode_segment returns a candidate only if the segment has at least
\* 10 durations strictly inside (150,450) and at least 10 strictly inside
\* (450,1200), the number of decoded bits is between 20 and 28, and the
\* packed code is over 1000; a candidate's code is the value, most
\* significant bit first, of the first 24 decoded bits, with
\* 1000 < code < 2^24; in every other case the result is None
C21_CandidateOnlyFromValidSegment ==
    Analysed =>
        LET segs == find_code_segments(timings)
        IN  \A k \in 1..Len(segs) :
                LET r == decode_segment(segs[k])
                    st == BandStats(segs[k])
                    bits == DecodedBits(segs[k])
                    value == MsbValue(Take(bits, 24))
                    valid == /\ st.sn >= 10 /\ st.ln >= 10
                             /\ 20 <= Len(bits) /\ Len(bits) <= 28
                             /\ value > 1000
                IN  /\ r.none = ~valid
                    /\ valid => /\ r.code = value
                                /\ 1000 < r.code /\ r.code < 2 ^ 24

\* C21 witness: button A sent as words of 28 bits was decoded to the value
\* of the first 24 of them
C21_Witness ==
    /\ outcome.kind = "success"
    /\ sent = segment_train(<<Word(CodeA, max_bits)>>, default_min_segments)
    /\ outcome.code = CodeA \div 16

\* bits without its j-th
WithoutBit(bits, j) ==
    SubSeq(bits, 1, j - 1) \o SubSeq(bits, j + 1, Len(bits))

\* C22: when one pulse of an otherwise clean 24-bit frame is corrupted so
\* that its pair matches neither pattern, the walk goes on one sample and
\* every uncorrupted pair is still decoded as its original bit: the segment
\* never decodes to a code other than the one the uncorrupted bits encode
C22_Resynchronisation ==
    (Analysed /\ sent # <<>> /\ sent[1].kind = "corrupted") =>
        LET item == sent[1]
            seg == pulses_of(item)
            st == BandStats(seg)
            j == (item.k + 1) \div 2
            neither == /\ ~(/\ WithinTolerance(seg[2 * j - 1], st.ssum, st.sn)
                            /\ WithinTolerance(seg[2 * j], st.lsum, st.ln))
                       /\ ~(/\ WithinTolerance(seg[2 * j - 1], st.lsum, st.ln)
                            /\ WithinTolerance(seg[2 * j], st.ssum, st.sn))
            r == decode_segment(seg)
        IN  (neither /\ ~r.none) =>
                r.code = MsbValue(WithoutBit(code_bits(item.code, frame_bits), j))

\* ------------------------------------------------------------------------
\* Claims on the vote
\* ------------------------------------------------------------------------

\* the primary code of an outcome past gate 4
PrimaryOf(o) ==
    CASE o.kind = "success" -> o.code
      [] ErrorTypeOf(o) = "WEAK_SIGNAL" -> o.details.code
      [] ErrorTypeOf(o) = "AMBIGUOUS_SIGNAL" -> o.details.competing_codes[1].code

\* the first segment that decoded to code c
FirstAt(dec, c) ==
    CHOOSE i \in DecodedAt(dec) :
        /\ dec[i].code = c
        /\ \A j \in DecodedAt(dec) : dec[j].code = c => i <= j

\* C28: the primary code is always a code with the maximal count among the
\* decoded codes; of several codes with that count it is the one whose
\* first decode comes earliest in the capture; and with two codes at 50%
\* each and min_confidence = 0.5 gate 5 passes
C28_PrimaryIsEarliestMostFrequent ==
    Analysed =>
        LET segs == find_code_segments(timings)
            dec == DecodeEach(segs)
            total == Cardinality(DecodedAt(dec))
            codes == {dec[i].code : i \in DecodedAt(dec)}
            past4 == /\ Len(timings) >= min_pulses
                     /\ SyncGaps(timings) >= min_segments
                     /\ Len(segs) >= min_segments
                     /\ total > 0
        IN  /\ past4 =>
                  /\ outcome.kind = "success"
                        \/ ErrorTypeOf(outcome) \in {"AMBIGUOUS_SIGNAL", "WEAK_SIGNAL"}
                  /\ PrimaryOf(outcome) \in codes
                  /\ CountOf(dec, PrimaryOf(outcome)) = BestCount(dec)
                  /\ \A c \in codes :
                        CountOf(dec, c) = BestCount(dec) =>
                            FirstAt(dec, PrimaryOf(outcome)) <= FirstAt(dec, c)
            /\ (/\ past4
                 /\ min_confidence = 5
                 /\ Cardinality(codes) = 2
                 /\ \A c \in codes : 2 * CountOf(dec, c) = total) =>
                    ErrorTypeOf(outcome) # "AMBIGUOUS_SIGNAL"

\* C28 witness: two frames of B, then two of A, with min_confidence 0.5 and
\* min_segments 1, were decoded to B, seen twice at confidence 0.5
C28_Witness ==
    /\ sent = concat(<<vote_chunk(2), vote_chunk(2), vote_chunk(1), vote_chunk(1)>>)
    /\ min_confidence = 5
    /\ min_segments = 1
    /\ outcome.kind = "success"
    /\ outcome.code = CodeB
    /\ outcome.times_seen = 2

\* ------------------------------------------------------------------------
\* Claims on find_code_segments
\* ------------------------------------------------------------------------

\* the places of the gap pulses of tm, and the places before its first and
\* after its last pulse
Fences(tm) ==
    {i \in 1..Len(tm) : tm[i][1] > sync_gap_threshold} \cup {0, Len(tm) + 1}

\* the fence that follows the fence g
NextFence(tm, g) ==
    CHOOSE h \in Fences(tm) : h > g /\ \A k \in Fences(tm) : k > g => h <= k

\* the fences followed by a maximal run of at least 40 pulses
KeptRuns(tm) ==
    {g \in Fences(tm) \ {Len(tm) + 1} : NextFence(tm, g) - g - 1 >= 40}

\* the durations of the maximal run after the fence g
RunAfter(tm, g) ==
    [i \in 1..(NextFence(tm, g) - g - 1) |-> tm[g + i][1]]

\* C20: find_code_segments returns exactly the maximal runs of consecutive
\* durations <= 4000 that have at least 40 durations, in input order: every
\* segment has at least 40 durations and none over the threshold, a shorter
\* run is dropped and not merged, the trailing run counts like any other,
\* and a duration of exactly 4000 is data
C20_MaximalRuns ==
    Analysed =>
        LET segs == find_code_segments(timings)
            kept == KeptRuns(timings)
        IN  /\ Len(segs) = Cardinality(kept)
            /\ \A g \in kept :
                  segs[Cardinality({h \in kept : h < g}) + 1] = RunAfter(timings, g)
            /\ \A k \in 1..Len(segs) :
                  /\ Len(segs[k]) >= 40
                  /\ \A i \in 1..Len(segs[k]) : segs[k][i] <= 4000

\* C20 witness: 40 pulses of exactly 4000, a gap, 39 pulses, a gap and 41
\* trailing pulses were captured, the gates before the segmentation let the
\* buffer pass, and the segments are the first and the last run
C20_Witness ==
    /\ Analysed
    /\ sent = <<Pulses(4000, 40), Pulses(4001, 1), Pulses(300, 39),
                Pulses(4001, 1), Pulses(300, 41)>>
    /\ ErrorTypeOf(outcome) \notin {"NO_SIGNAL", "NO_SYNC_GAPS"}
    /\ find_code_segments(timings) = <<run_of(4000, 40), run_of(300, 41)>>

\* C29: for every pulse buffer find_code_segments returns at most (number
\* of durations > sync threshold) + 1 segments; so a capture with exactly
\* min_segments - 1 sync gaps is rejected with NO_SYNC_GAPS even when it
\* holds min_segments segments of at least 40 pulses, and
\* INSUFFICIENT_SEGMENTS is raised only when the gap count is already
\* >= min_segments
C29_SegmentsBoundedByGaps ==
    LET segs == find_code_segments(timings)
    IN  /\ Len(segs) <= SyncGaps(timings) + 1
        /\ Analysed =>
              /\ (/\ SyncGaps(timings) = min_segments - 1
                   /\ Len(segs) = min_segments) =>
                      /\ ErrorTypeOf(outcome) = "NO_SYNC_GAPS"
                      /\ outcome.details.sync_gaps_found = min_segments - 1
                      /\ outcome.details.sync_gaps_needed = min_segments
              /\ ErrorTypeOf(outcome) = "INSUFFICIENT_SEGMENTS" =>
                      /\ SyncGaps(timings) >= min_segments
                      /\ outcome.details.sync_gaps >= outcome.details.segments_needed
                      /\ outcome.details.segments_found = Len(segs)

\* C29 witness: three runs of 41 pulses parted by two sync gaps, captured
\* with min_segments 3, were rejected with NO_SYNC_GAPS although
\* find_code_segments returns three segments for them
C29_Witness ==
    /\ sent = <<Pulses(300, 41), Pulses(4001, 1), Pulses(300, 41),
                Pulses(4001, 1), Pulses(300, 41)>>
    /\ min_segments = default_min_segments
    /\ ErrorTypeOf(outcome) = "NO_SYNC_GAPS"
    /\ Len(find_code_segments(timings)) = min_segments
    /\ SyncGaps(timings) = min_segments - 1

\* ------------------------------------------------------------------------
\* Claims on config_manager and controller
\* ------------------------------------------------------------------------

\* C24: when the configuration file does not exist, load_config terminates:
\* it creates the default configuration, saves it and returns it, releasing
\* the lock (no call of load_config blocks forever)
C24_LoadConfigTerminates ==
    (loading.call = "load_config" /\ config_file = "missing")
        ~> (loading = NoLoading /\ config_file = "present" /\ lock = "free")

\* the ids of the switches are pairwise distinct
IdsDistinct ==
    \A i, j \in 1..Len(switches) : switches[i].id = switches[j].id => i = j

\* C30: after any sequence of add_switch, update_switch and delete_switch
\* the switch ids are pairwise distinct; add_switch with an id already
\* present, and update_switch or delete_switch with an id not present, raise
\* ValueError and leave the stored configuration unchanged
C30_IdsStayDistinct ==
    /\ []IdsDistinct
    /\ [][/\ \A id \in 1..MaxSwitchId :
               ((\E i \in 1..Len(switches) : switches[i].id = id)
                    /\ add_switch(<<CodeA, CodeB>>, <<id>>))
                   => (raised' = "ValueError" /\ switches' = switches)
          /\ \A id \in 1..MaxSwitchId, u \in Updates :
               ((\A i \in 1..Len(switches) : switches[i].id # id)
                    /\ update_switch(id, u.name, u.on_code, u.off_code))
                   => (raised' = "ValueError" /\ switches' = switches)
          /\ \A id \in 1..MaxSwitchId :
               ((\A i \in 1..Len(switches) : switches[i].id # id)
                    /\ delete_switch(id))
                   => (raised' = "ValueError" /\ switches' = switches)]_vars

\* C30 witness: with switches 1 and 3 stored, the last call raised
\* ValueError
C30_Witness ==
    /\ Len(switches) = 2
    /\ switches[1].id = 1
    /\ switches[2].id = 3
    /\ switches[1].name = "lamp"
    /\ raised = "ValueError"

\* the state is 'on' but for the case of its letters
IsOn(state) ==
    /\ Len(state) = 2
    /\ state[1] \in {"o", "O"}
    /\ state[2] \in {"n", "N"}

\* the state is 'off' but for the case of its letters
IsOff(state) ==
    /\ Len(state) = 3
    /\ state[1] \in {"o", "O"}
    /\ state[2] \in {"f", "F"}
    /\ state[3] \in {"f", "F"}

\* C18: control_outlet(outlet_id, state) calls send_code exactly once, with
\* the configured on code for 'on' and off code for 'off', when the outlet
\* is configured; for an outlet that is not configured or a state other
\* than on/off it calls send_code zero times and returns without raising
C18_ControlOutlet ==
    controlled.called =>
        LET configured == {i \in 1..Len(switches) : switches[i].id = controlled.outlet_id}
            valid == IsOn(controlled.state) \/ IsOff(controlled.state)
        IN  IF configured # {} /\ valid
            THEN /\ ~controlled.raised
                 /\ \E i \in configured :
                       controlled.send_code_calls =
                           <<IF IsOn(controlled.state) THEN switches[i].on_code
                             ELSE switches[i].off_code>>
            ELSE /\ controlled.send_code_calls = <<>>
                 /\ ~controlled.raised

\* C18 witness: control_outlet was called for a configured outlet with the
\* state 'OfF' and made one send_code call, with the off code of the outlet
C18_Witness ==
    /\ controlled.called
    /\ controlled.state = <<"O", "f", "F">>
    /\ \E i \in 1..Len(switches) :
          /\ switches[i].id = controlled.outlet_id
          /\ controlled.send_code_calls = <<switches[i].off_code>>

\* C19: get_next_id returns 1 when there are no switches and otherwise the
\* largest existing id plus one, never the id of a switch in the
\* configuration, whatever holes the ids have
C19_NextIdIsFresh ==
    /\ switches = <<>> => get_next_id(switches) = 1
    /\ switches # <<>> =>
          /\ \E i \in 1..Len(switches) : get_next_id(switches) = switches[i].id + 1
          /\ \A i \in 1..Len(switches) : get_next_id(switches) > switches[i].id
    /\ \A i \in 1..Len(switches) : switches[i].id # get_next_id(switches)

\* C19 witness: the ids are 1 and 3, with a hole at 2, and add_switch has
\* given the next switch the id 4
C19_Witness ==
    /\ Len(switches) = 3
    /\ switches[1].id = 1
    /\ switches[2].id = 3
    /\ switches[3].id = 4
    /\ get_next_id(SubSeq(switches, 1, 2)) = 4

====
